---- MODULE Spec2Model ----
(***************************************************************************)
(* Bookshelf-Flashcards: the validation layer (validation.py), the         *)
(* ownership-aware storage layer (database.py) and the configuration /     *)
(* secret resolution layer (config.py, web_app.py start-up).               *)
(*                                                                         *)
(* Python values are records [kind, val]: kind is the Python type name,    *)
(* val the payload (a TLA+ string for str, an integer for int).  A Python  *)
(* str is a TLA+ string; Len, SubSeq and \o act on it character by         *)
(* character.                                                              *)
(***************************************************************************)
EXTENDS Integers, Sequences, FiniteSets, TLC

VARIABLES
    books,      \* rows of table books (database.py:42-53)
    seq,        \* AUTOINCREMENT counter of table books: the largest id handed out
    last,       \* outcome of the last BookDatabase call in the sequential run
    pc,         \* race run: position of each caller inside add_book
    args,       \* race run: the validated arguments of each caller
    result,     \* race run: what each caller's add_book returned
    calls,      \* race run: add_book calls started so far
    environ,    \* os.environ as seen by config.py
    secret_files, \* the secrets directory: file name -> content (None: no directory)
    cloud,      \* the cloud secret manager: secret name -> its answer
    cfg,        \* the Config object: [secret_providers, is_production]
    lookup,     \* outcome of the last Config.get_secret call made from outside
    boot,       \* web_app.py module start-up: [pc, secret_key, error]
    fs,         \* the file system paths are resolved against: [cwd, links]
    call,       \* the last call of a pure function: [op, ...]
    disk,       \* the files under the upload root: path -> content
    upload,     \* the frame of the add_from_file request being handled
    ai,         \* the summary service and the front-end using it
    users,      \* rows of table users (database.py:29-37)
    reg,        \* the frames of the create_user calls under way
    gui         \* the flashcard state of the desktop window (bookshelf_gui.py:39-41)

\* the variables of the file, upload, summary and account parts
web_vars == <<fs, call, disk, upload, ai, users, reg, gui>>

vars == <<books, seq, last, pc, args, result, calls, environ, secret_files, cloud, cfg,
          lookup, boot, fs, call, disk, upload, ai, users, reg, gui>>

-----------------------------------------------------------------------------
(* Python values *)

PyStr(s) == [kind |-> "str", val |-> s]
PyInt(n) == [kind |-> "int", val |-> n]
None   == [kind |-> "NoneType", val |-> ""]

\* TLA+ strings cannot hold U+0000: this character stands for '\x00' and is
\* used for nothing else.
NUL == "^"

-----------------------------------------------------------------------------
(* str methods used by validation.py *)

Ch(s, i) == SubSeq(s, i, i)

\* A local variable: Only({e : x \in {v}}) is e with x assigned the value v,
\* which is computed once.
Only(S) == CHOOSE v \in S : TRUE

\* the characters str.strip() removes, as far as TLA+ strings can spell them
WHITESPACE == {" ", "\t", "\n", "\r", "\f"}

\* str.lstrip(): what is left from the first character that is not whitespace
lstrip(s) ==
    SubSeq(s, CHOOSE i \in 1..(Len(s) + 1) :
                  /\ i = Len(s) + 1 \/ Ch(s, i) \notin WHITESPACE
                  /\ \A j \in 1..(i - 1) : Ch(s, j) \in WHITESPACE,
           Len(s))

\* str.rstrip(): what is left up to the last character that is not whitespace
rstrip(s) ==
    SubSeq(s, 1, CHOOSE i \in 0..Len(s) :
                     /\ i = 0 \/ Ch(s, i) \notin WHITESPACE
                     /\ \A j \in (i + 1)..Len(s) : Ch(s, j) \in WHITESPACE)

\* a strip that removes at most one whitespace character from each end
strip_one_character(s) ==
    Only({IF Len(l) > 0 /\ Ch(l, Len(l)) \in WHITESPACE
          THEN SubSeq(l, 1, Len(l) - 1)
          ELSE l
          : l \in {IF Len(s) > 0 /\ Ch(s, 1) \in WHITESPACE
                   THEN SubSeq(s, 2, Len(s))
                   ELSE s}})

strip(s) == rstrip(lstrip(s))

UPPERCASE == "ABCDEFGHIJKLMNOPQRSTUVWXYZ"
LOWERCASE == "abcdefghijklmnopqrstuvwxyz"

\* the lower-case form of each upper-case letter
lower_map ==
    [c \in {Ch(UPPERCASE, i) : i \in 1..Len(UPPERCASE)} |->
        Ch(LOWERCASE, CHOOSE i \in 1..Len(UPPERCASE) : Ch(UPPERCASE, i) = c)]

lower_char(c) == IF c \in DOMAIN lower_map THEN lower_map[c] ELSE c

\* str.lower(): character by character (halving keeps the recursion shallow)
RECURSIVE lower(_)
lower(s) ==
    IF Len(s) = 0 THEN ""
    ELSE IF Len(s) = 1 THEN lower_char(s)
    ELSE LET h == Len(s) \div 2
         IN  lower(SubSeq(s, 1, h)) \o lower(SubSeq(s, h + 1, Len(s)))

\* Python's `sub in s`
contains(s, sub) ==
    \E i \in 1..(Len(s) - Len(sub) + 1) : SubSeq(s, i, i + Len(sub) - 1) = sub

\* n copies of c:  c * n
RECURSIVE repeat(_, _)
repeat(c, n) ==
    IF n <= 0 THEN ""
    ELSE IF n % 2 = 1 THEN c \o repeat(c, n - 1)
    ELSE LET h == repeat(c, n \div 2) IN h \o h

-----------------------------------------------------------------------------
(* validation.py *)

MAX_TITLE_LENGTH == 500
MAX_AUTHOR_LENGTH == 200
MAX_SUMMARY_LENGTH == 10000
MAX_BOOK_ID == 2147483647

dangerous_patterns ==
    {"<script", "javascript:", "onerror=", "onclick=", "<iframe", "eval("}

\* a call either returns a value or raises ValidationError(err)
Return(v) == [ok |-> TRUE, val |-> v, err |-> ""]
Raise(msg) == [ok |-> FALSE, val |-> None, err |-> msg]

\* validate_title with `>=` for `>` in the length check
validate_title_refuses_max_length(title) ==
    IF title.kind # "str" THEN Raise("Title must be a string")
    ELSE Only({
         IF t = "" THEN Raise("Title cannot be empty")
         ELSE IF Len(t) >= MAX_TITLE_LENGTH
              THEN Raise("Title cannot exceed 500 characters")
         ELSE IF \E c \in {NUL, "\r", "\n", "\t"} : contains(t, c)
              THEN Raise("Title contains invalid control characters")
         ELSE IF \E title_lower \in {lower(t)} :
                    \E p \in dangerous_patterns : contains(title_lower, p)
              THEN Raise("Title contains potentially dangerous content")
         ELSE Return(PyStr(t))
         : t \in {strip(title.val)}})

validate_title(title) ==
    IF title.kind # "str" THEN Raise("Title must be a string")
    ELSE Only({
         IF t = "" THEN Raise("Title cannot be empty")
         ELSE IF Len(t) > MAX_TITLE_LENGTH
              THEN Raise("Title cannot exceed 500 characters")
         ELSE IF \E c \in {NUL, "\r", "\n", "\t"} : contains(t, c)
              THEN Raise("Title contains invalid control characters")
         ELSE IF \E title_lower \in {lower(t)} :
                    \E p \in dangerous_patterns : contains(title_lower, p)
              THEN Raise("Title contains potentially dangerous content")
         ELSE Return(PyStr(t))
         : t \in {strip(title.val)}})

validate_author(author) ==
    IF author.kind # "str" THEN Raise("Author must be a string")
    ELSE Only({
         IF a = "" THEN Raise("Author cannot be empty")
         ELSE IF Len(a) > MAX_AUTHOR_LENGTH
              THEN Raise("Author name cannot exceed 200 characters")
         ELSE IF \E c \in {NUL, "\r", "\n", "\t"} : contains(a, c)
              THEN Raise("Author name contains invalid control characters")
         ELSE IF \E author_lower \in {lower(a)} :
                    \E p \in dangerous_patterns : contains(author_lower, p)
              THEN Raise("Author name contains potentially dangerous content")
         ELSE Return(PyStr(a))
         : a \in {strip(author.val)}})

\* validate_summary without `if not summary: return None`
validate_summary_keeps_empty(summary) ==
    IF summary.kind = "NoneType" THEN Return(None)
    ELSE IF summary.kind # "str" THEN Raise("Summary must be a string or None")
    ELSE Only({
         IF Len(s) > MAX_SUMMARY_LENGTH
         THEN Raise("Summary cannot exceed 10000 characters")
         ELSE IF contains(s, NUL)
              THEN Raise("Summary contains invalid characters")
         ELSE Return(PyStr(s))
         : s \in {strip(summary.val)}})

validate_summary(summary) ==
    IF summary.kind = "NoneType" THEN Return(None)
    ELSE IF summary.kind # "str" THEN Raise("Summary must be a string or None")
    ELSE Only({
         IF s = "" THEN Return(None)
         ELSE IF Len(s) > MAX_SUMMARY_LENGTH
              THEN Raise("Summary cannot exceed 10000 characters")
         ELSE IF contains(s, NUL)
              THEN Raise("Summary contains invalid characters")
         ELSE IF \E summary_lower \in {lower(s)} :
                    \E p \in dangerous_patterns : contains(summary_lower, p)
              THEN Raise("Summary contains potentially dangerous content")
         ELSE Return(PyStr(s))
         : s \in {strip(summary.val)}})

DIGITS == "0123456789"

is_digit(c) == \E i \in 1..Len(DIGITS) : Ch(DIGITS, i) = c
digit_value(c) == (CHOOSE i \in 1..Len(DIGITS) : Ch(DIGITS, i) = c) - 1

RECURSIVE digits_value(_)
digits_value(s) ==
    IF Len(s) = 0 THEN 0
    ELSE 10 * digits_value(SubSeq(s, 1, Len(s) - 1)) + digit_value(Ch(s, Len(s)))

\* int(x) for an int or a str: [ok, val]; ok is FALSE for ValueError/TypeError
int_of(x) ==
    IF x.kind = "int" THEN [ok |-> TRUE, val |-> x.val]
    ELSE IF x.kind # "str" THEN [ok |-> FALSE, val |-> 0]
    ELSE Only({
             Only({
                 IF Len(d) > 0 /\ \A i \in 1..Len(d) : is_digit(Ch(d, i))
                 THEN [ok |-> TRUE,
                       val |-> IF Ch(s, 1) = "-"
                               THEN 0 - digits_value(d) ELSE digits_value(d)]
                 ELSE [ok |-> FALSE, val |-> 0]
                 : d \in {IF Len(s) > 0 /\ Ch(s, 1) \in {"+", "-"}
                          THEN SubSeq(s, 2, Len(s)) ELSE s}})
             : s \in {strip(x.val)}})

\* (TLC's integers end at 2147483647, so no input of the runs reaches the
\* "too large" branch)
validate_book_id(book_id) ==
    Only({
        IF ~n.ok THEN Raise("Book ID must be a valid integer")
        ELSE IF n.val <= 0 THEN Raise("Book ID must be a positive integer")
        ELSE IF n.val > MAX_BOOK_ID THEN Raise("Book ID value is too large")
        ELSE Return(PyInt(n.val))
        : n \in {int_of(book_id)}})

-----------------------------------------------------------------------------
(* The values the runs pass in.  Each validator's answer on them is computed
   once and looked up afterwards; on any other value the validator is applied. *)

Users == {PyInt(1), PyInt(2)}
UserInputs == Users \cup {None}

TitleInputs ==
    {PyStr("  T "), PyStr(""), PyStr(repeat("t", MAX_TITLE_LENGTH + 1)),
     PyStr("<Script>"), PyInt(42)}

AuthorInputs ==
    {PyStr("A"), PyStr("B\n"), PyStr(repeat("a", MAX_AUTHOR_LENGTH + 1)), None}

SummaryInputs ==
    {None, PyStr(""), PyStr(" S "), PyStr(repeat("s", MAX_SUMMARY_LENGTH)),
     PyStr(repeat("s", MAX_SUMMARY_LENGTH + 1)), PyStr("x" \o NUL)}

title_results == [t \in TitleInputs |-> validate_title(t)]
author_results == [a \in AuthorInputs |-> validate_author(a)]
summary_results == [s \in SummaryInputs |-> validate_summary(s)]

validated_title(title) ==
    IF title \in DOMAIN title_results THEN title_results[title]
    ELSE validate_title(title)

validated_author(author) ==
    IF author \in DOMAIN author_results THEN author_results[author]
    ELSE validate_author(author)

validated_summary(summary) ==
    IF summary \in DOMAIN summary_results THEN summary_results[summary]
    ELSE validate_summary(summary)

-----------------------------------------------------------------------------
(* validation.py, continued *)

\* validate_all_book_data that passes the summary through unvalidated
validate_all_book_data_skips_summary(title, author, summary) ==
    Only({
    IF ~vt.ok THEN [ok |-> FALSE, err |-> vt.err, title |-> "", author |-> "", summary |-> None]
    ELSE Only({
    IF ~va.ok THEN [ok |-> FALSE, err |-> va.err, title |-> "", author |-> "", summary |-> None]
    ELSE [ok |-> TRUE, err |-> "", title |-> vt.val.val, author |-> va.val.val,
          summary |-> summary]
    : va \in {validated_author(author)}})
    : vt \in {validated_title(title)}})

\* validate_all_book_data that validates the author before the title
validate_all_book_data_author_first(title, author, summary) ==
    Only({
    IF ~va.ok THEN [ok |-> FALSE, err |-> va.err, title |-> "", author |-> "", summary |-> None]
    ELSE Only({
    IF ~vt.ok THEN [ok |-> FALSE, err |-> vt.err, title |-> "", author |-> "", summary |-> None]
    ELSE Only({
    IF ~vs.ok THEN [ok |-> FALSE, err |-> vs.err, title |-> "", author |-> "", summary |-> None]
    ELSE [ok |-> TRUE, err |-> "", title |-> vt.val.val, author |-> va.val.val,
          summary |-> vs.val]
    : vs \in {validated_summary(summary)}})
    : vt \in {validated_title(title)}})
    : va \in {validated_author(author)}})

\* title, then author, then summary; the first failure is the one raised.
\* val is meaningful only when ok.
validate_all_book_data(title, author, summary) ==
    Only({
    IF ~vt.ok THEN [ok |-> FALSE, err |-> vt.err, title |-> "", author |-> "", summary |-> None]
    ELSE Only({
    IF ~va.ok THEN [ok |-> FALSE, err |-> va.err, title |-> "", author |-> "", summary |-> None]
    ELSE Only({
    IF ~vs.ok THEN [ok |-> FALSE, err |-> vs.err, title |-> "", author |-> "", summary |-> None]
    ELSE [ok |-> TRUE, err |-> "", title |-> vt.val.val, author |-> va.val.val,
          summary |-> vs.val]
    : vs \in {validated_summary(summary)}})
    : va \in {validated_author(author)}})
    : vt \in {validated_title(title)}})

-----------------------------------------------------------------------------
(* database.py: table books and the statements BookDatabase runs on it *)

\* A row of books.  title and author are TEXT NOT NULL; summary and user_id
\* are nullable (None is SQL NULL).  created_at is written once by the INSERT
\* and read by no statement but ORDER BY; it is left out of the row.
Row(id, title, author, summary, user_id) ==
    [id |-> id, title |-> title, author |-> author, summary |-> summary,
     user_id |-> user_id]

\* cursor.fetchone(): a row of the result, or None when it is empty
fetchone(rows) ==
    IF rows = {} THEN None ELSE PyInt((CHOOSE r \in rows : TRUE).id)

\* the column constraints of CREATE TABLE books
check_constraints(title, author, summary) ==
    /\ Len(title) <= MAX_TITLE_LENGTH
    /\ Len(author) <= MAX_AUTHOR_LENGTH
    /\ (summary = None \/ Len(summary.val) <= MAX_SUMMARY_LENGTH)

\* UNIQUE(title, author)
unique_title_author(b, title, author) ==
    ~\E r \in b : r.title = title /\ r.author = author

\* SELECT id FROM books WHERE title = ? AND author = ? AND user_id IS NULL   /
\* SELECT id FROM books WHERE title = ? AND author = ? AND user_id = ?
select_existing(b, title, author, user_id) ==
    IF user_id = None
    THEN {r \in b : r.title = title /\ r.author = author /\ r.user_id = None}
    ELSE {r \in b : r.title = title /\ r.author = author /\ r.user_id = user_id}

\* INSERT OR REPLACE INTO books ...: a row with the same (title, author) is
\* deleted and the new row takes its place under a new id
insert_or_replace_book(b, s, title, author, summary, user_id) ==
    IF check_constraints(title, author, summary)
    THEN [ok |-> TRUE,
          books |-> {r \in b : ~(r.title = title /\ r.author = author)}
                    \cup {Row(s + 1, title, author, summary, user_id)},
          seq |-> s + 1, lastrowid |-> s + 1]
    ELSE [ok |-> FALSE, books |-> b, seq |-> s, lastrowid |-> 0]

\* INSERT INTO books (title, author, summary, user_id) VALUES (?, ?, ?, ?)
\* and commit: [ok, books, seq, lastrowid]; ok is FALSE for sqlite3.IntegrityError,
\* which leaves the table and the AUTOINCREMENT counter as they were.
insert_book(b, s, title, author, summary, user_id) ==
    IF check_constraints(title, author, summary) /\ unique_title_author(b, title, author)
    THEN [ok |-> TRUE,
          books |-> b \cup {Row(s + 1, title, author, summary, user_id)},
          seq |-> s + 1, lastrowid |-> s + 1]
    ELSE [ok |-> FALSE, books |-> b, seq |-> s, lastrowid |-> 0]

\* SELECT id FROM books WHERE title = ? AND author = ?     (the except branch)
select_title_author(b, title, author) ==
    {r \in b : r.title = title /\ r.author = author}

\* BookDatabase.add_book is three steps on the shared connection; another
\* caller may run between them.  Each step returns [done, books, seq, raised,
\* err, ret, path, args]: done says the call has returned or raised, raised
\* names the exception that left the call ("" for none), path the branch taken,
\* args the validated arguments the next step works on.
NoArgs == [title |-> "", author |-> "", summary |-> None, user_id |-> None]

\* lines 80-100: validate, then look for the caller's own row
add_book_check(b, s, title, author, summary, user_id) ==
    Only({
    IF ~v.ok
    THEN [done |-> TRUE, books |-> b, seq |-> s, raised |-> "ValidationError",
          err |-> v.err, ret |-> None, path |-> "ValidationError", args |-> NoArgs]
    ELSE Only({
             IF existing # None
             THEN [done |-> TRUE, books |-> b, seq |-> s, raised |-> "", err |-> "",
                   ret |-> existing, path |-> "existing", args |-> a]
             ELSE [done |-> FALSE, books |-> b, seq |-> s, raised |-> "", err |-> "",
                   ret |-> None, path |-> "check", args |-> a]
             : existing \in {fetchone(select_existing(b, v.title, v.author, user_id))},
               a \in {[title |-> v.title, author |-> v.author, summary |-> v.summary,
                       user_id |-> user_id]}})
    : v \in {validate_all_book_data(title, author, summary)}})

\* add_book without `except sqlite3.IntegrityError`
add_book_insert_uncaught(b, s, a) ==
    LET ins == insert_book(b, s, a.title, a.author, a.summary, a.user_id) IN
    IF ins.ok
    THEN [done |-> TRUE, books |-> ins.books, seq |-> ins.seq, raised |-> "",
          err |-> "", ret |-> PyInt(ins.lastrowid), path |-> "inserted", args |-> a]
    ELSE [done |-> TRUE, books |-> b, seq |-> s, raised |-> "IntegrityError",
          err |-> "UNIQUE constraint failed: books.title, books.author",
          ret |-> None, path |-> "IntegrityError", args |-> a]

\* lines 103-112: the INSERT, its commit and `return cursor.lastrowid`, or the
\* entry into `except sqlite3.IntegrityError`
add_book_insert(b, s, a) ==
    LET ins == insert_book(b, s, a.title, a.author, a.summary, a.user_id) IN
    IF ins.ok
    THEN [done |-> TRUE, books |-> ins.books, seq |-> ins.seq, raised |-> "",
          err |-> "", ret |-> PyInt(ins.lastrowid), path |-> "inserted", args |-> a]
    ELSE [done |-> FALSE, books |-> b, seq |-> s, raised |-> "", err |-> "",
          ret |-> None, path |-> "IntegrityError", args |-> a]

\* lines 113-118: the except branch looks the row up by (title, author) alone
add_book_requery(b, s, a) ==
    LET res == fetchone(select_title_author(b, a.title, a.author)) IN
    [done |-> TRUE, books |-> b, seq |-> s, raised |-> "", err |-> "",
     ret |-> IF res # None THEN res ELSE PyInt(-1),
     path |-> "IntegrityError", args |-> a]

\* BookDatabase.add_book, run without interruption
add_book(b, s, title, author, summary, user_id) ==
    Only({
        IF c.done THEN c
        ELSE Only({IF i.done THEN i ELSE add_book_requery(b, s, c.args)
                   : i \in {add_book_insert(b, s, c.args)}})
        : c \in {add_book_check(b, s, title, author, summary, user_id)}})

\* update_summary whose UPDATE is `WHERE id = ?` whatever the user
update_summary_any_owner(b, book_id, summary, user_id) ==
    Only({
    IF ~vid.ok THEN [books |-> b, raised |-> "ValidationError", err |-> vid.err]
    ELSE Only({
    IF ~vs.ok THEN [books |-> b, raised |-> "ValidationError", err |-> vs.err]
    ELSE [books |->
            {IF r.id = vid.val.val THEN [r EXCEPT !.summary = vs.val] ELSE r : r \in b},
          raised |-> "", err |-> ""]
    : vs \in {validated_summary(summary)}})
    : vid \in {validate_book_id(book_id)}})

\* BookDatabase.update_summary: [books, raised, err]; the UPDATE and its
\* commit are one statement on one row
update_summary(b, book_id, summary, user_id) ==
    Only({
    IF ~vid.ok THEN [books |-> b, raised |-> "ValidationError", err |-> vid.err]
    ELSE Only({
    IF ~vs.ok THEN [books |-> b, raised |-> "ValidationError", err |-> vs.err]
    ELSE [books |->
            {IF /\ r.id = vid.val.val
                /\ (user_id # None => r.user_id = user_id)
             THEN [r EXCEPT !.summary = vs.val]
             ELSE r : r \in b},
          raised |-> "", err |-> ""]
    : vs \in {validated_summary(summary)}})
    : vid \in {validate_book_id(book_id)}})

\* BookDatabase.get_book: [raised, err, ret]; ret holds the row returned and is
\* empty when the call returns None (id is the primary key: at most one row)
get_book(b, book_id, user_id) ==
    Only({
    IF ~vid.ok THEN [raised |-> "ValidationError", err |-> vid.err, ret |-> {}]
    ELSE [raised |-> "", err |-> "",
          ret |-> IF user_id # None
                  THEN {r \in b : r.id = vid.val.val
                                   /\ (r.user_id = user_id \/ r.user_id = None)}
                  ELSE {r \in b : r.id = vid.val.val}]
    : vid \in {validate_book_id(book_id)}})

\* get_all_books without the WHERE clause
get_all_books_unscoped(b, user_id) == b

\* BookDatabase.get_all_books: the rows returned, as a set (their order,
\* ORDER BY created_at DESC, is not modelled)
get_all_books(b, user_id) ==
    IF user_id # None
    THEN {r \in b : r.user_id = user_id \/ r.user_id = None}
    ELSE b

\* BookDatabase.search_books_by_title: SELECT * FROM books WHERE title = ?
search_books_by_title(b, title) ==
    {r \in b : r.title = title}

-----------------------------------------------------------------------------
(* The sequential run: one caller at a time on a BookDatabase.  The table is
   bounded by UNIQUE(title, author): the inputs hold one valid title and two
   valid authors. *)

BookIdInputs ==
    {PyInt(0), PyInt(1), PyInt(2), PyInt(3), PyStr(" 1 "), PyStr("one"), None}

\* titles searched for: stored, not stored, and a stored title before trimming
SearchInputs == {"T", "U", "  T "}

NoCall == [op |-> "none", user_id |-> None, book_id |-> None, outcome |-> "none"]

IdleRace == /\ pc = "unused"
            /\ args = "unused"
            /\ result = "unused"
            /\ calls = 0

IdleConfig == /\ environ = "unused"
              /\ secret_files = "unused"
              /\ cloud = "unused"
              /\ cfg = "unused"
              /\ lookup = "unused"
              /\ boot = "unused"

IdleFiles == /\ fs = "unused"
             /\ call = "unused"

IdleUpload == /\ disk = "unused"
              /\ upload = "unused"

IdleSummary == ai = "unused"

IdleUsers == /\ users = "unused"
             /\ reg = "unused"

IdleGui == gui = "unused"

IdleWeb == IdleFiles /\ IdleUpload /\ IdleSummary /\ IdleUsers

Init ==
    /\ IdleGui
    /\ books = {}
    /\ seq = 0
    /\ last = NoCall
    /\ IdleRace
    /\ IdleConfig
    /\ IdleWeb

\* last.book_id: the id returned (add_book) or the validated id argument
AddBook ==
    \E title \in TitleInputs, author \in AuthorInputs,
       summary \in SummaryInputs, user_id \in UserInputs :
        \E r \in {add_book(books, seq, title, author, summary, user_id)} :
        /\ books' = r.books
        /\ seq' = r.seq
        /\ last' = [op |-> "add_book", user_id |-> user_id, book_id |-> r.ret,
                    outcome |-> r.path]
        /\ UNCHANGED <<pc, args, result, calls, environ, secret_files, cloud, cfg, lookup, boot, web_vars>>

UpdateSummary ==
    \E book_id \in BookIdInputs, summary \in SummaryInputs, user_id \in UserInputs :
        \E r \in {update_summary(books, book_id, summary, user_id)} :
        /\ books' = r.books
        /\ last' = [op |-> "update_summary", user_id |-> user_id,
                    book_id |-> IF r.raised # "" THEN None
                                ELSE validate_book_id(book_id).val,
                    outcome |-> IF r.raised # "" THEN r.raised ELSE "returned"]
        /\ UNCHANGED <<seq, pc, args, result, calls, environ, secret_files, cloud, cfg, lookup, boot, web_vars>>

Next ==
    \/ AddBook
    \/ UpdateSummary

Spec == Init /\ [][Next]_vars

-----------------------------------------------------------------------------
(* The race run: two callers inside add_book on one BookDatabase (the Flask
   threads share the connection, check_same_thread=False).  A statement with
   its commit is one step; callers interleave between statements. *)

MaxCalls == 3       \* add_book calls started in a race run

Callers == {"c1", "c2"}

RaceTitleInputs == {PyStr("  T "), PyStr("")}
RaceAuthorInputs == {PyStr("A"), PyStr("B\n")}
RaceSummaryInputs == {None, PyStr(" S ")}

NoResult == [raised |-> "", ret |-> None, path |-> "none"]

RaceInit ==
    /\ IdleGui
    /\ books = {}
    /\ seq = 0
    /\ last = NoCall
    /\ pc = [c \in Callers |-> "idle"]
    /\ args = [c \in Callers |-> NoArgs]
    /\ result = [c \in Callers |-> NoResult]
    /\ calls = 0
    /\ IdleConfig
    /\ IdleWeb

\* what a step leaves in the caller's frame
Frame(step) == [raised |-> step.raised, ret |-> step.ret, path |-> step.path]

\* a caller enters add_book: validation and the existence check
RaceCheck ==
    \E c \in Callers :
        /\ pc[c] \in {"idle", "done"}
        /\ calls < MaxCalls
        /\ \E title \in RaceTitleInputs, author \in RaceAuthorInputs,
              summary \in RaceSummaryInputs, user_id \in UserInputs :
             \E step \in {add_book_check(books, seq, title, author, summary, user_id)} :
             /\ pc' = [pc EXCEPT ![c] = IF step.done THEN "done" ELSE "insert"]
             /\ args' = [args EXCEPT ![c] = step.args]
             /\ result' = [result EXCEPT ![c] = Frame(step)]
        /\ calls' = calls + 1
        /\ UNCHANGED <<books, seq, last, environ, secret_files, cloud, cfg, lookup, boot, web_vars>>

\* the caller's INSERT: it returns the new id, or IntegrityError is caught
RaceInsert ==
    \E c \in Callers :
        /\ pc[c] = "insert"
        /\ \E step \in {add_book_insert(books, seq, args[c])} :
             /\ books' = step.books
             /\ seq' = step.seq
             /\ pc' = [pc EXCEPT ![c] = IF step.done THEN "done" ELSE "requery"]
             /\ result' = [result EXCEPT ![c] = Frame(step)]
        /\ UNCHANGED <<last, args, calls, environ, secret_files, cloud, cfg, lookup, boot, web_vars>>

\* the caller's except branch: the second SELECT
RaceRequery ==
    \E c \in Callers :
        /\ pc[c] = "requery"
        /\ \E step \in {add_book_requery(books, seq, args[c])} :
             /\ pc' = [pc EXCEPT ![c] = "done"]
             /\ result' = [result EXCEPT ![c] = Frame(step)]
        /\ UNCHANGED <<books, seq, last, args, calls, environ, secret_files, cloud, cfg, lookup, boot, web_vars>>

RaceNext ==
    \/ RaceCheck
    \/ RaceInsert
    \/ RaceRequery

SpecRace == RaceInit /\ [][RaceNext]_vars

-----------------------------------------------------------------------------
(* Claims on the storage layer, checked in every state of the sequential run *)

ValidTitles == {t \in TitleInputs : validated_title(t).ok}
ValidAuthors == {a \in AuthorInputs : validated_author(a).ok}
ValidSummaries == {s \in SummaryInputs : validated_summary(s).ok}
ValidBookIds == {i \in BookIdInputs : validate_book_id(i).ok}

\* the rows holding the validated form of (title, author)
rows_for(b, title, author) ==
    {r \in b : /\ r.title = validated_title(title).val.val
               /\ r.author = validated_author(author).val.val}

\* C1: with no row for (T, A), add_book(T, A, user_id=U1) then
\* add_book(T, A, user_id=U2), U1 # U2, return two distinct ids; both rows are
\* in get_all_books() and get_all_books(user_id=U1) holds the U1 row but not
\* the U2 row.
C1_distinct_rows_per_owner ==
    \A title \in ValidTitles, author \in ValidAuthors, u1 \in Users, u2 \in Users :
        (u1 # u2 /\ rows_for(books, title, author) = {}) =>
            LET r1 == add_book(books, seq, title, author, None, u1)
                r2 == add_book(r1.books, r1.seq, title, author, None, u2)
                all == get_all_books(r2.books, None)
                mine == get_all_books(r2.books, u1)
            IN  /\ r1.ret # r2.ret
                /\ \E x \in all : PyInt(x.id) = r1.ret /\ x.user_id = u1
                /\ \E x \in all : PyInt(x.id) = r2.ret /\ x.user_id = u2
                /\ \E x \in mine : PyInt(x.id) = r1.ret
                /\ ~\E x \in mine : x.user_id = u2

\* C2: add_book(T, A, owner) called twice in any table state returns the same
\* id both times, the second call adds no row, and the table then holds
\* exactly one row matching (T, A) for that owner.
C2_add_book_idempotent_per_owner ==
    \A title \in ValidTitles, author \in ValidAuthors,
       summary \in ValidSummaries, owner \in UserInputs :
        LET r1 == add_book(books, seq, title, author, summary, owner)
            r2 == add_book(r1.books, r1.seq, title, author, summary, owner)
        IN  /\ r1.raised = "" /\ r2.raised = ""
            /\ r1.ret = r2.ret
            /\ r2.books = r1.books
            /\ Cardinality({r \in rows_for(r2.books, title, author) :
                              r.user_id = owner}) = 1

\* C4: get_all_books(user_id=U) returns exactly the rows whose owner is U or
\* absent, and get_book(id, user_id=U) returns the row with that id iff its
\* owner is U or absent; a row owned by another user is never returned to U.
C4_reads_scoped_to_owner ==
    \A u \in Users :
        /\ \A r \in get_all_books(books, u) : r \in books /\ r.user_id \in {u, None}
        /\ \A r \in books : r.user_id \in {u, None} => r \in get_all_books(books, u)
        /\ \A i \in ValidBookIds :
             LET n == validate_book_id(i).val.val
                 got == get_book(books, i, u)
             IN  /\ got.raised = ""
                 /\ \A r \in got.ret : r \in books /\ r.id = n /\ r.user_id \in {u, None}
                 /\ \A r \in books : (r.id = n /\ r.user_id \in {u, None}) => r \in got.ret

\* a user reads a table that holds an unowned row and a row of another user
C4_witness ==
    \E u \in Users : \E mine \in books, other \in books :
        /\ mine.user_id = None
        /\ other.user_id \in Users \ {u}
        /\ get_all_books(books, u) = {mine}
        /\ get_book(books, PyInt(other.id), u).ret = {}
        /\ get_book(books, PyInt(mine.id), u).ret = {mine}

\* C5: the by-title search, run for an acting user, returns only rows with
\* that title whose owner is that user or absent.
C5_search_scoped_to_owner ==
    \A u \in Users, title \in SearchInputs :
        \A r \in search_books_by_title(books, title) :
            r.title = title /\ r.user_id \in {u, None}

\* C6: update_summary(id, s, user_id=U) changes no row owned by a user other
\* than U (when the row with that id is owned by U2 # U the call returns
\* normally and the table is unchanged); in all cases it changes nothing but
\* the summary of the row with the given id.
C6_update_summary_frame ==
    \A book_id \in BookIdInputs, summary \in SummaryInputs, u \in UserInputs :
        LET r == update_summary(books, book_id, summary, u)
            vid == validate_book_id(book_id)
        IN  /\ Cardinality(r.books) = Cardinality(books)
            /\ \A old \in books :
                 \E new \in r.books :
                    /\ new = [old EXCEPT !.summary = new.summary]
                    /\ new # old => (vid.ok /\ old.id = vid.val.val)
                    /\ (u \in Users /\ old.user_id \in Users \ {u}) => new = old
            /\ ( /\ u \in Users
                 /\ vid.ok /\ validated_summary(summary).ok
                 /\ \E old \in books : old.id = vid.val.val /\ old.user_id \in Users \ {u} )
               => (r.raised = "" /\ r.books = books)

\* user U has just called update_summary on a row owned by another user,
\* with a summary different from the stored one
C6_witness ==
    /\ last.op = "update_summary"
    /\ last.outcome = "returned"
    /\ last.user_id \in Users
    /\ \E r \in books : /\ PyInt(r.id) = last.book_id
                        /\ r.user_id \in Users \ {last.user_id}
                        /\ r.summary = None

is_trimmed(s) ==
    /\ Len(s) >= 1
    /\ Ch(s, 1) \notin WHITESPACE
    /\ Ch(s, Len(s)) \notin WHITESPACE

-----------------------------------------------------------------------------
(* config.py: secret providers and Config *)

EnvNames ==
    {"SECRET_KEY", "GOOGLE_AI_API_KEY", "ENVIRONMENT", "FLASK_ENV", "RENDER",
     "HEROKU_APP_NAME", "AWS_EXECUTION_ENV", "K_SERVICE", "CLOUD_SECRET_PROVIDER",
     "GCP_PROJECT_ID", "FORCE_HTTPS"}

\* the secret names the runs ask for
Keys == {"SECRET_KEY", "GOOGLE_AI_API_KEY"}

\* os.getenv(name) and os.getenv(name, default)
getenv(name) == IF name \in DOMAIN environ THEN environ[name] ELSE None
getenv_or(name, default) == IF getenv(name) = None THEN default ELSE getenv(name).val

\* Python truth of an Optional[str]
truthy(v) == v # None /\ v.val # ""

\* a file of the secrets directory that exists but cannot be read
Unreadable == [kind |-> "OSError", val |-> ""]

Provider(class, arg) == [class |-> class, arg |-> arg]

\* a provider's get_secret: [raised, val]
\* EnvironmentSecretProvider: os.getenv(key)
\* FileSecretProvider: the stripped content of secrets_dir/key; None when the
\*   file is missing or reading it fails
\* CloudSecretProvider: the secret manager's answer; None for every failure
\*   (and, for gcp, when GCP_PROJECT_ID is not set)
\* BadProvider (tests/test_config.py): raises
provider_get_secret(p, key) ==
    CASE p.class = "EnvironmentSecretProvider" ->
            [raised |-> FALSE, val |-> getenv(key)]
      [] p.class = "FileSecretProvider" ->
            LET f == IF secret_files.exists /\ key \in DOMAIN secret_files.files
                     THEN secret_files.files[key] ELSE None
            IN  [raised |-> FALSE,
                 val |-> IF f.kind = "str" THEN PyStr(strip(f.val)) ELSE None]
      [] p.class = "CloudSecretProvider" ->
            LET answer == IF key \in DOMAIN cloud THEN cloud[key] ELSE None IN
            [raised |-> FALSE,
             val |-> IF p.arg = "aws" THEN answer
                     ELSE IF p.arg = "gcp"
                          THEN (IF truthy(getenv("GCP_PROJECT_ID")) THEN answer ELSE None)
                     ELSE None]
      [] OTHER -> [raised |-> TRUE, val |-> None]

\* Config._init_secret_providers
init_secret_providers ==
    <<Provider("EnvironmentSecretProvider", "")>>
    \o (IF secret_files.exists
        THEN <<Provider("FileSecretProvider", "/run/secrets")>> ELSE <<>>)
    \o (IF getenv("CLOUD_SECRET_PROVIDER") \in {PyStr("aws"), PyStr("gcp")}
        THEN <<Provider("CloudSecretProvider", getenv("CLOUD_SECRET_PROVIDER").val)>>
        ELSE <<>>)

\* Config._detect_production
detect_production ==
    \/ lower(getenv_or("ENVIRONMENT", "")) \in {"production", "prod"}
    \/ lower(getenv_or("FLASK_ENV", "")) = "production"
    \/ getenv("RENDER") # None
    \/ getenv("HEROKU_APP_NAME") # None
    \/ getenv("AWS_EXECUTION_ENV") # None
    \/ getenv("K_SERVICE") # None

\* Config.__init__
Config == [secret_providers |-> init_secret_providers,
           is_production |-> detect_production]

\* the loop of Config.get_secret: the first truthy answer, in list order; a
\* provider that raises is logged and passed over
RECURSIVE first_secret(_, _)
first_secret(providers, key) ==
    IF providers = <<>> THEN None
    ELSE LET answer == provider_get_secret(Head(providers), key) IN
         IF ~answer.raised /\ truthy(answer.val) THEN answer.val
         ELSE first_secret(Tail(providers), key)

\* a get_secret that takes whatever the first provider answers
get_secret_first_answer_only(c, key, default, required) ==
    LET value == IF c.secret_providers = <<>> THEN None
                 ELSE provider_get_secret(Head(c.secret_providers), key).val IN
    IF value # None THEN [raised |-> "", err |-> "", val |-> value]
    ELSE IF default # None THEN [raised |-> "", err |-> "", val |-> default]
    ELSE IF required
         THEN [raised |-> "ConfigurationError",
               err |-> "Required configuration value not found", val |-> None]
    ELSE [raised |-> "", err |-> "", val |-> None]

\* Config.get_secret: [raised, err, val]
get_secret(c, key, default, required) ==
    LET value == first_secret(c.secret_providers, key) IN
    IF value # None THEN [raised |-> "", err |-> "", val |-> value]
    ELSE IF default # None THEN [raised |-> "", err |-> "", val |-> default]
    ELSE IF required
         THEN [raised |-> "ConfigurationError",
               err |-> IF c.is_production
                       THEN "Required configuration value not found"
                       ELSE "Required configuration value not found: " \o key,
               val |-> None]
    ELSE [raised |-> "", err |-> "", val |-> None]

INSECURE_DEFAULTS ==
    [SECRET_KEY |-> {"dev-secret-key-change-in-production", "dev-secret-key"},
     GOOGLE_AI_API_KEY |-> {"your_api_key_here", "test_key", "test_api_key"}]

KEY_CHARS ==
    {Ch(UPPERCASE, i) : i \in 1..Len(UPPERCASE)} \cup
    {Ch(LOWERCASE, i) : i \in 1..Len(LOWERCASE)} \cup
    {Ch(DIGITS, i) : i \in 1..Len(DIGITS)} \cup {"_", "-"}

\* API_KEY_PATTERNS['GOOGLE_AI_API_KEY'].match(v):  ^[A-Za-z0-9_-]{20,}$
\* ($ also matches before one final newline)
matches_api_key_pattern(v) ==
    LET body == IF Len(v) > 0 /\ Ch(v, Len(v)) = "\n" THEN SubSeq(v, 1, Len(v) - 1) ELSE v
    IN  Len(body) >= 20 /\ \A i \in 1..Len(body) : Ch(body, i) \in KEY_CHARS

\* Config.validate_api_key
validate_api_key(key_name, key_value) ==
    IF ~truthy(key_value) THEN FALSE
    ELSE IF key_name \in DOMAIN INSECURE_DEFAULTS
            /\ key_value.val \in INSECURE_DEFAULTS[key_name] THEN FALSE
    ELSE IF key_name = "GOOGLE_AI_API_KEY" /\ ~matches_api_key_pattern(key_value.val)
         THEN FALSE
    ELSE IF Len(key_value.val) < 10 THEN FALSE
    ELSE TRUE

\* Config.check_security: the list of findings
check_security(c) ==
    IF ~c.is_production THEN <<>>
    ELSE Only({
             (IF secret_key # None /\ secret_key.val \in INSECURE_DEFAULTS["SECRET_KEY"]
              THEN <<"CRITICAL: Using default SECRET_KEY in production! "
                     \o "Set SECRET_KEY environment variable to a strong random value.">>
              ELSE IF truthy(secret_key) /\ Len(secret_key.val) < 32
                   THEN <<"WARNING: SECRET_KEY is too short. Use at least 32 characters.">>
              ELSE <<>>)
             \o (IF truthy(api_key) /\ ~validate_api_key("GOOGLE_AI_API_KEY", api_key)
                 THEN <<"WARNING: GOOGLE_AI_API_KEY appears to be invalid or a placeholder. "
                        \o "Set a valid API key.">>
                 ELSE <<>>)
             \o (IF lower(getenv_or("FORCE_HTTPS", "")) # "true"
                 THEN <<"INFO: Consider setting FORCE_HTTPS=true for production.">>
                 ELSE <<>>)
             : secret_key \in {get_secret(c, "SECRET_KEY", None, FALSE).val},
               api_key \in {get_secret(c, "GOOGLE_AI_API_KEY", None, FALSE).val}})

startswith(s, prefix) ==
    Len(s) >= Len(prefix) /\ SubSeq(s, 1, Len(prefix)) = prefix

\* Config.validate: [raised, err]; a CRITICAL finding raises in production
validate(c) ==
    Only({
        Only({
            IF critical # {} /\ c.is_production
            THEN [raised |-> "ConfigurationError",
                  err |-> findings[CHOOSE i \in critical : \A j \in critical : i <= j]]
            ELSE [raised |-> "", err |-> ""]
            : critical \in {{i \in 1..Len(findings) :
                                startswith(findings[i], "CRITICAL:")}}})
        : findings \in {check_security(c)}})

\* Config.get_secret_key
get_secret_key(c) ==
    get_secret(c, "SECRET_KEY", PyStr("dev-secret-key-change-in-production"), FALSE).val

-----------------------------------------------------------------------------
(* Start-up of the web application: web_app.py builds the configuration,
   validates it and installs the session secret.  Tests register further
   providers on a built configuration and call get_secret directly. *)

MaxBadProviders == 1

DEFAULT_SECRET_KEY == "dev-secret-key-change-in-production"

SecretKeySettings ==
    {None, PyStr(""), PyStr(DEFAULT_SECRET_KEY), PyStr("dev-secret-key"),
     PyStr("short-key"), PyStr(repeat("k", 32))}

ApiKeySettings == {None, PyStr("test_key")}

\* at most one of the environment's deployment signals is set
SignalSettings ==
    {<<>>, <<"ENVIRONMENT", "production">>, <<"ENVIRONMENT", "Prod">>,
     <<"ENVIRONMENT", "staging">>, <<"FLASK_ENV", "Production">>,
     <<"RENDER", "true">>, <<"HEROKU_APP_NAME", "shelf">>,
     <<"AWS_EXECUTION_ENV", "AWS_ECS_FARGATE">>, <<"K_SERVICE", "shelf">>}

\* the cloud provider setting and the secret manager's answer for SECRET_KEY
CloudSettings ==
    {<<None, None, None>>,
     <<PyStr("aws"), None, None>>,
     <<PyStr("aws"), None, PyStr("cloud-held-session-secret-0123456789")>>,
     <<PyStr("gcp"), None, PyStr("cloud-held-session-secret-0123456789")>>}

\* the secrets directory: missing, or present with the file SECRET_KEY
\* missing, readable or unreadable
SecretFileSettings ==
    {[exists |-> FALSE, files |-> [k \in Keys |-> None]]} \cup
    {[exists |-> TRUE, files |-> [k \in Keys |-> IF k = "SECRET_KEY" THEN f ELSE None]] :
        f \in {None, PyStr(" file-secret \n"), PyStr(DEFAULT_SECRET_KEY \o "\n"),
               Unreadable}}

Environ(secret_key, api_key, signal, cloud_setting) ==
    [n \in EnvNames |->
        CASE n = "SECRET_KEY" -> secret_key
          [] n = "GOOGLE_AI_API_KEY" -> api_key
          [] n = "CLOUD_SECRET_PROVIDER" -> cloud_setting[1]
          [] n = "GCP_PROJECT_ID" -> cloud_setting[2]
          [] signal # <<>> /\ n = signal[1] -> PyStr(signal[2])
          [] OTHER -> None]

DefaultInputs == {None, PyStr(""), PyStr("fallback")}

NoConfig == [secret_providers |-> <<>>, is_production |-> FALSE]
NoLookup == [key |-> "", default |-> None, required |-> FALSE,
             raised |-> "", err |-> "", val |-> None]

IdleStore ==
    /\ books = {}
    /\ seq = 0
    /\ last = NoCall

ConfigInit ==
    /\ IdleGui
    /\ IdleStore
    /\ IdleRace
    /\ IdleWeb
    /\ \E secret_key \in SecretKeySettings, api_key \in ApiKeySettings,
          signal \in SignalSettings, cloud_setting \in CloudSettings :
          /\ environ = Environ(secret_key, api_key, signal, cloud_setting)
          /\ cloud = [k \in Keys |-> IF k = "SECRET_KEY" THEN cloud_setting[3] ELSE None]
    /\ secret_files \in SecretFileSettings
    /\ cfg = NoConfig
    /\ lookup = NoLookup
    /\ boot = [pc |-> "start", raised |-> "", secret_key |-> None]

\* web_app.py: config = get_config()
GetConfig ==
    /\ boot.pc = "start"
    /\ cfg' = Config
    /\ boot' = [boot EXCEPT !.pc = "configured"]
    /\ UNCHANGED <<books, seq, last, pc, args, result, calls, environ,
                   secret_files, cloud, lookup, web_vars>>

\* tests/test_config.py: config.secret_providers.insert(0, BadProvider())
RegisterProvider ==
    /\ boot.pc # "start"
    /\ Cardinality({i \in 1..Len(cfg.secret_providers) :
                      cfg.secret_providers[i].class = "BadProvider"}) < MaxBadProviders
    /\ cfg' = [cfg EXCEPT !.secret_providers = <<Provider("BadProvider", "")>> \o @]
    /\ UNCHANGED <<books, seq, last, pc, args, result, calls, environ,
                   secret_files, cloud, lookup, boot, web_vars>>

\* a call of config.get_secret(key, default, required)
GetSecret ==
    /\ boot.pc # "start"
    /\ \E key \in Keys, default \in DefaultInputs, required \in BOOLEAN :
          \E r \in {get_secret(cfg, key, default, required)} :
          lookup' = [key |-> key, default |-> default, required |-> required,
                     raised |-> r.raised, err |-> r.err, val |-> r.val]
    /\ UNCHANGED <<books, seq, last, pc, args, result, calls, environ,
                   secret_files, cloud, cfg, boot, web_vars>>

\* web_app.py: try: config.validate() except ConfigurationError: log; re-raise
\* in production
Validate ==
    /\ boot.pc = "configured"
    /\ \E r \in {validate(cfg)} :
       boot' = [boot EXCEPT !.raised = r.raised,
                            !.pc = IF r.raised # "" /\ cfg.is_production
                                   THEN "aborted" ELSE "validated"]
    /\ UNCHANGED <<books, seq, last, pc, args, result, calls, environ,
                   secret_files, cloud, cfg, lookup, web_vars>>

\* web_app.py: app.secret_key = config.get_secret_key()
InstallSecretKey ==
    /\ boot.pc = "validated"
    /\ boot' = [boot EXCEPT !.pc = "serving", !.secret_key = get_secret_key(cfg)]
    /\ UNCHANGED <<books, seq, last, pc, args, result, calls, environ,
                   secret_files, cloud, cfg, lookup, web_vars>>

ConfigNext ==
    \/ GetConfig
    \/ RegisterProvider
    \/ GetSecret
    \/ Validate
    \/ InstallSecretKey

SpecConfig == ConfigInit /\ [][ConfigNext]_vars

-----------------------------------------------------------------------------
(* Configuration claims *)

\* C9: when production is detected and the session secret (the value
\* get_secret_key() returns and the web application installs) is a known
\* insecure default, validate() raises ConfigurationError and start-up never
\* gets as far as installing the secret key.
C9_default_secret_aborts_startup ==
    (/\ boot.pc # "start"
     /\ cfg.is_production
     /\ get_secret_key(cfg).val \in INSECURE_DEFAULTS["SECRET_KEY"])
    => /\ validate(cfg).raised = "ConfigurationError"
       /\ boot.pc \notin {"validated", "serving"}

\* the answers of the providers of c for key that count as a value
yielding(c, key) ==
    {i \in 1..Len(c.secret_providers) :
        LET answer == provider_get_secret(c.secret_providers[i], key) IN
        ~answer.raised /\ answer.val # None /\ answer.val # PyStr("")}

\* what the contract of get_secret prescribes
prescribed(c, key, default, required) ==
    LET ys == yielding(c, key) IN
    IF ys # {}
    THEN [raised |-> "",
          val |-> provider_get_secret(
                      c.secret_providers[CHOOSE i \in ys : \A j \in ys : i <= j], key).val]
    ELSE IF default # None THEN [raised |-> "", val |-> default]
    ELSE IF required THEN [raised |-> "ConfigurationError", val |-> None]
    ELSE [raised |-> "", val |-> None]

\* C10: get_secret(key, default, required) returns the answer of the first
\* provider, in registration order, that is neither absent nor empty nor an
\* exception; when no provider yields a value it returns the explicit default
\* if one is given, otherwise raises ConfigurationError when required and
\* returns None when not.  It holds of every call the configuration could
\* receive and of the call recorded last.
C10_get_secret_provider_order ==
    boot.pc # "start" =>
        /\ \A key \in Keys, default \in DefaultInputs, required \in BOOLEAN :
              LET r == get_secret(cfg, key, default, required)
                  e == prescribed(cfg, key, default, required)
              IN  r.raised = e.raised /\ r.val = e.val
        /\ lookup.key # "" =>
              LET e == prescribed(cfg, lookup.key, lookup.default, lookup.required)
              IN  lookup.raised = e.raised /\ lookup.val = e.val

\* a call that passed over a raising provider and an empty answer and took
\* the value of a later provider
C10_witness ==
    /\ lookup.key = "SECRET_KEY"
    /\ Len(cfg.secret_providers) >= 3
    /\ cfg.secret_providers[1].class = "BadProvider"
    /\ cfg.secret_providers[2].class = "EnvironmentSecretProvider"
    /\ environ["SECRET_KEY"] = PyStr("")
    /\ cfg.secret_providers[3].class = "FileSecretProvider"
    /\ lookup.val = PyStr("file-secret")
    /\ lookup.raised = ""

-----------------------------------------------------------------------------
(* pathlib as used by validation.validate_file_path.  A path is a string; its
   parts are the names between the slashes.  The file system decides what
   resolve() makes of it: fs.cwd is the working directory (a list of names
   from the root) and fs.links maps the location of each symbolic link (a
   list of names from the root) to the path it points to. *)

\* s.split(c) for a one-character c
RECURSIVE split_from(_, _, _, _)
split_from(s, c, i, cur) ==
    IF i > Len(s) THEN <<cur>>
    ELSE IF Ch(s, i) = c THEN <<cur>> \o split_from(s, c, i + 1, "")
    ELSE split_from(s, c, i + 1, cur \o Ch(s, i))

split(s, c) == split_from(s, c, 1, "")

is_name(x) == x # "" /\ x # "."

\* PurePosixPath(p).parts without the root: empty names and "." are dropped,
\* ".." is kept
path_parts(p) == SelectSeq(split(p, "/"), is_name)

is_absolute(p) == Len(p) > 0 /\ Ch(p, 1) = "/"

\* str(path) of an absolute path
RECURSIVE path_str(_)
path_str(names) ==
    IF names = <<>> THEN "/"
    ELSE IF Len(names) = 1 THEN "/" \o names[1]
    ELSE path_str(SubSeq(names, 1, Len(names) - 1)) \o "/" \o names[Len(names)]

\* the number of symbolic links the system follows before it reports a loop
MAXSYMLINKS == 40

\* os.path.realpath: walk the names left to right from `done`; ".." steps up
\* (the root is its own parent), a symbolic link is replaced by its target.
\* [ok, path]: ok is FALSE when the links loop.
RECURSIVE walk(_, _, _, _)
walk(links, done, rest, fuel) ==
    IF rest = <<>> THEN [ok |-> TRUE, path |-> done]
    ELSE IF Head(rest) = ".."
         THEN walk(links, SubSeq(done, 1, Len(done) - 1), Tail(rest), fuel)
    ELSE IF Append(done, Head(rest)) \in DOMAIN links
         THEN IF fuel = 0 THEN [ok |-> FALSE, path |-> <<>>]
              ELSE IF is_absolute(links[Append(done, Head(rest))])
                   THEN walk(links, <<>>,
                             path_parts(links[Append(done, Head(rest))]) \o Tail(rest),
                             fuel - 1)
              ELSE walk(links, done,
                        path_parts(links[Append(done, Head(rest))]) \o Tail(rest),
                        fuel - 1)
    ELSE walk(links, Append(done, Head(rest)), Tail(rest), fuel)

\* Path(p).resolve(): absolute against the working directory, symbolic links
\* followed, "." and ".." removed.  ok is FALSE for the RuntimeError of a
\* symbolic-link loop.
resolve(f, p) ==
    walk(f.links, IF is_absolute(p) THEN <<>> ELSE f.cwd, path_parts(p), MAXSYMLINKS)

\* resolved.relative_to(base) does not raise ValueError
is_relative_to(names, base) ==
    Len(base) <= Len(names) /\ SubSeq(names, 1, Len(base)) = base

suspicious_patterns == <<"..", "~/", "$HOME">>

\* validation.validate_file_path: [raised, err, val]
validate_file_path(f, file_path, base_dir) ==
    IF file_path.kind # "str"
    THEN [raised |-> "ValidationError", err |-> "File path must be a string", val |-> ""]
    ELSE IF contains(file_path.val, NUL)
    THEN [raised |-> "ValidationError", err |-> "File path contains invalid characters",
          val |-> ""]
    ELSE Only({
        IF ~resolved_path.ok
        THEN [raised |-> "ValidationError", err |-> "Invalid file path", val |-> ""]
        ELSE IF base_dir # None /\ base_dir.val # "" /\ ~resolve(f, base_dir.val).ok
        THEN [raised |-> "RuntimeError", err |-> "Symlink loop", val |-> ""]
        ELSE IF /\ base_dir # None /\ base_dir.val # ""
                /\ ~is_relative_to(resolved_path.path, resolve(f, base_dir.val).path)
        THEN [raised |-> "ValidationError",
              err |-> "File path is outside allowed directory", val |-> ""]
        ELSE IF \E i \in 1..Len(suspicious_patterns) :
                    /\ contains(lower(file_path.val), suspicious_patterns[i])
                    /\ contains(path_str(resolved_path.path), suspicious_patterns[i])
        THEN [raised |-> "ValidationError",
              err |-> "File path contains suspicious patterns", val |-> ""]
        ELSE [raised |-> "", err |-> "", val |-> path_str(resolved_path.path)]
        : resolved_path \in {resolve(f, file_path.val)}})

-----------------------------------------------------------------------------
(* validation.sanitize_html and the string forms Python gives its values *)

PyList(xs) == [kind |-> "list", val |-> xs]

RECURSIVE str_of_nat(_)
str_of_nat(n) ==
    IF n < 10 THEN Ch(DIGITS, n + 1)
    ELSE str_of_nat(n \div 10) \o Ch(DIGITS, (n % 10) + 1)

RECURSIVE replace_char(_, _, _)
\* every occurrence of the character c in s replaced by the text t
replace_char(s, c, t) ==
    IF s = "" THEN ""
    ELSE (IF Ch(s, 1) = c THEN t ELSE Ch(s, 1)) \o replace_char(Tail(s), c, t)

\* repr() of a str of printable characters: single quotes, unless the text
\* holds a single quote and no double quote
repr_str(s) ==
    IF contains(s, "'") /\ ~contains(s, "\"")
    THEN "\"" \o replace_char(s, "\\", "\\\\") \o "\""
    ELSE "'" \o replace_char(replace_char(s, "\\", "\\\\"), "'", "\\'") \o "'"

RECURSIVE join_reprs(_)
join_reprs(xs) ==
    IF xs = <<>> THEN ""
    ELSE IF Len(xs) = 1 THEN repr_str(xs[1])
    ELSE repr_str(xs[1]) \o ", " \o join_reprs(Tail(xs))

\* str(v)
py_str(v) ==
    CASE v.kind = "str" -> v.val
      [] v.kind = "int" -> IF v.val < 0 THEN "-" \o str_of_nat(0 - v.val)
                           ELSE str_of_nat(v.val)
      [] v.kind = "NoneType" -> "None"
      [] v.kind = "list" -> "[" \o join_reprs(v.val) \o "]"

html_entity(c) ==
    CASE c = "&" -> "&amp;"
      [] c = "<" -> "&lt;"
      [] c = ">" -> "&gt;"
      [] c = "\"" -> "&quot;"
      [] c = "'" -> "&#x27;"
      [] OTHER -> c

RECURSIVE html_escape(_)
\* html.escape(s, quote=True)
html_escape(s) ==
    IF s = "" THEN "" ELSE html_entity(Ch(s, 1)) \o html_escape(Tail(s))

\* validation.sanitize_html
sanitize_html(text) ==
    IF text.kind # "str" THEN py_str(text) ELSE html_escape(text.val)

-----------------------------------------------------------------------------
(* Calls of the pure functions of validation.py, one at a time, in a process
   whose working directory and symbolic links are drawn at the start. *)

UPLOAD_FOLDER == "/tmp/uploads"

CwdSettings == {<<>>, <<"tmp", "uploads", "sub">>, <<"home", "u">>}

\* no links; or a link out of the upload folder, a link that loops and a link
\* that leads to the upload folder
LinkSettings ==
    {<<>>,
     [l \in {<<"tmp", "uploads", "out">>, <<"tmp", "uploads", "loop">>, <<"srv">>} |->
        CASE l = <<"tmp", "uploads", "out">> -> "/etc"
          [] l = <<"tmp", "uploads", "loop">> -> "loop"
          [] OTHER -> "/tmp/uploads"]}

FilePathInputs ==
    {PyStr("../x"), PyStr("a.txt"), PyStr("/etc/passwd"),
     PyStr("/tmp/uploads/a.txt"), PyStr("/tmp/uploads/../secret"),
     PyStr("/tmp/uploads2/a.txt"), PyStr("/tmp/uploads/out/passwd"),
     PyStr("/tmp/uploads/loop/a.txt"), PyStr("/srv/./b.txt"),
     PyStr("/tmp/uploads/$HOME/a.txt"), PyStr("/tmp/uploads/~/a.txt"),
     PyStr("/tmp/uploads/a..b"), PyStr("/tmp/uploads/a" \o NUL), PyInt(7)}

BaseDirInputs ==
    {None, PyStr(""), PyStr(UPLOAD_FOLDER), PyStr("/tmp/uploads/"), PyStr("/srv"),
     PyStr("/"), PyStr("/tmp/uploads/loop")}

NoPureCall == [op |-> "none", a1 |-> None, a2 |-> None, a3 |-> None, raised |-> "",
               err |-> "", val |-> None]

CallsInit ==
    /\ IdleGui
    /\ IdleStore
    /\ IdleRace
    /\ IdleConfig
    /\ IdleUpload
    /\ IdleSummary
    /\ IdleUsers
    /\ fs \in {[cwd |-> c, links |-> l] : c \in CwdSettings, l \in LinkSettings}
    /\ call = NoPureCall

\* a call of validate_file_path(file_path, base_dir)
ValidateFilePath ==
    /\ \E file_path \in FilePathInputs, base_dir \in BaseDirInputs :
         \E r \in {validate_file_path(fs, file_path, base_dir)} :
            call' = [op |-> "validate_file_path", a1 |-> file_path, a2 |-> base_dir,
                     a3 |-> None, raised |-> r.raised, err |-> r.err,
                     val |-> IF r.raised = "" THEN PyStr(r.val) ELSE None]
    /\ UNCHANGED <<books, seq, last, pc, args, result, calls, environ, secret_files,
                   cloud, cfg, lookup, boot, fs, disk, upload, ai, users, reg, gui>>

SanitizeInputs ==
    {PyStr(""), PyStr("Hello World"), PyStr("<script>x</script>"),
     PyStr("Tom & Jerry"), PyStr("a'b\"<&>"), PyStr("&amp;"),
     PyInt(123), PyInt(0 - 7), None,
     PyList(<<>>), PyList(<<"<b>">>), PyList(<<"a&b", "it's">>), PyList(<<"plain">>)}

\* a call of sanitize_html(text)
SanitizeHtml ==
    /\ \E text \in SanitizeInputs :
         call' = [op |-> "sanitize_html", a1 |-> text, a2 |-> None, a3 |-> None, raised |-> "",
                  err |-> "", val |-> PyStr(sanitize_html(text))]
    /\ UNCHANGED <<books, seq, last, pc, args, result, calls, environ, secret_files,
                   cloud, cfg, lookup, boot, fs, disk, upload, ai, users, reg, gui>>

\* a Python tuple
PyTuple(items) == [kind |-> "tuple", val |-> items]

\* the result of a validator as the caller sees it
ValidatorCall(op, a1, a2, a3, r) ==
    [op |-> op, a1 |-> a1, a2 |-> a2, a3 |-> a3,
     raised |-> IF r.ok THEN "" ELSE "ValidationError", err |-> r.err, val |-> r.val]

\* the value a successful call of validator op has just returned, which its
\* caller may hand to the same validator again (web_app.add_book validates and
\* BookDatabase.add_book validates what it is given once more)
returned_by(op) == IF call.op = op /\ call.raised = "" THEN {call.val} ELSE {}

ValidateTitleInputs ==
    {PyStr("  T "), PyStr(""), PyStr("   "), PyStr("Tom & Jerry\f"),
     PyStr(repeat("t", MAX_TITLE_LENGTH)), PyStr(repeat("t", MAX_TITLE_LENGTH + 1)),
     PyStr(repeat("t", MAX_TITLE_LENGTH) \o " "),
     PyStr(" " \o repeat("t", MAX_TITLE_LENGTH - 1) \o "\n"),
     PyStr(repeat(" ", MAX_TITLE_LENGTH + 1)),
     PyStr("  " \o repeat("t", MAX_TITLE_LENGTH + 1)),
     PyStr("a\tb"), PyStr("a" \o NUL), PyStr("x\ry"), PyStr("x\ny"), PyStr("\tT\n"),
     PyStr("<Script>"), PyStr("EVAL(1)"), PyStr("a onclick=b"), PyInt(42), None}

\* validate_title on each of these inputs, computed once
title_calls == [t \in ValidateTitleInputs |-> validate_title(t)]

\* a call of validate_title(title)
ValidateTitle ==
    /\ \E title \in ValidateTitleInputs \cup returned_by("validate_title") :
         call' = ValidatorCall("validate_title", title, None, None,
                               IF title \in DOMAIN title_calls THEN title_calls[title]
                               ELSE validate_title(title))
    /\ UNCHANGED <<books, seq, last, pc, args, result, calls, environ, secret_files,
                   cloud, cfg, lookup, boot, fs, disk, upload, ai, users, reg, gui>>

ValidateAuthorInputs ==
    {PyStr(" A. Author  "), PyStr(""), PyStr("\n"), PyStr("B\n"), PyStr("B\nC"),
     PyStr(repeat("a", MAX_AUTHOR_LENGTH)), PyStr(repeat("a", MAX_AUTHOR_LENGTH + 1)),
     PyStr(" " \o repeat("a", MAX_AUTHOR_LENGTH) \o " "),
     PyStr("<iframe"), PyStr("JavaScript:x"), PyInt(7), None}

author_calls == [a \in ValidateAuthorInputs |-> validate_author(a)]

\* a call of validate_author(author)
ValidateAuthor ==
    /\ \E author \in ValidateAuthorInputs \cup returned_by("validate_author") :
         call' = ValidatorCall("validate_author", author, None, None,
                               IF author \in DOMAIN author_calls THEN author_calls[author]
                               ELSE validate_author(author))
    /\ UNCHANGED <<books, seq, last, pc, args, result, calls, environ, secret_files,
                   cloud, cfg, lookup, boot, fs, disk, upload, ai, users, reg, gui>>

ValidateSummaryInputs ==
    {None, PyStr(""), PyStr(" \n "), PyStr(" S "), PyStr("line 1\nline 2\t& more \n"),
     PyStr(repeat("s", MAX_SUMMARY_LENGTH)), PyStr(repeat("s", MAX_SUMMARY_LENGTH + 1)),
     PyStr("x" \o NUL), PyStr("an onerror=x"), PyInt(3)}

summary_calls == [s \in ValidateSummaryInputs |-> validate_summary(s)]

\* a call of validate_summary(summary)
ValidateSummary ==
    /\ \E summary \in ValidateSummaryInputs \cup returned_by("validate_summary") :
         call' = ValidatorCall("validate_summary", summary, None, None,
                               IF summary \in DOMAIN summary_calls
                               THEN summary_calls[summary]
                               ELSE validate_summary(summary))
    /\ UNCHANGED <<books, seq, last, pc, args, result, calls, environ, secret_files,
                   cloud, cfg, lookup, boot, fs, disk, upload, ai, users, reg, gui>>

\* a call of validate_all_book_data(title, author, summary)
ValidateAllBookData ==
    /\ \E title \in TitleInputs, author \in AuthorInputs, summary \in SummaryInputs :
         \E r \in {validate_all_book_data(title, author, summary)} :
            call' = [op |-> "validate_all_book_data", a1 |-> title, a2 |-> author,
                     a3 |-> summary,
                     raised |-> IF r.ok THEN "" ELSE "ValidationError", err |-> r.err,
                     val |-> IF r.ok
                             THEN PyTuple(<<PyStr(r.title), PyStr(r.author), r.summary>>)
                             ELSE None]
    /\ UNCHANGED <<books, seq, last, pc, args, result, calls, environ, secret_files,
                   cloud, cfg, lookup, boot, fs, disk, upload, ai, users, reg, gui>>

CallsNext ==
    \/ ValidateFilePath
    \/ SanitizeHtml

SpecCalls == CallsInit /\ [][CallsNext]_vars

\* The field validators read nothing but their arguments: the file system plays
\* no part in calls of them.
ValidatorsInit ==
    /\ IdleGui
    /\ IdleStore
    /\ IdleRace
    /\ IdleConfig
    /\ IdleUpload
    /\ IdleSummary
    /\ IdleUsers
    /\ fs = "unused"
    /\ call = NoPureCall

ValidatorsNext ==
    \/ ValidateTitle
    \/ ValidateAuthor
    \/ ValidateSummary
    \/ ValidateAllBookData

SpecValidators == ValidatorsInit /\ [][ValidatorsNext]_vars

-----------------------------------------------------------------------------
(* Claims about validate_file_path *)

\* C13: validate_file_path("../x", base_dir=D) fails with "File path is
\* outside allowed directory" for every directory D and every working
\* directory.
C13_parent_path_escapes_every_base ==
    (/\ call.op = "validate_file_path"
     /\ call.a1 = PyStr("../x")
     /\ call.a2 # None)
    => /\ call.raised = "ValidationError"
       /\ call.err = "File path is outside allowed directory"

\* C14: whenever validate_file_path(p, base_dir=D) is called with a base_dir
\* other than None and returns normally, the path returned is the resolved
\* form of D or a descendant of it, name by name.
C14_returned_path_within_base ==
    (/\ call.op = "validate_file_path"
     /\ call.a2 # None
     /\ call.raised = "")
    => /\ resolve(fs, call.a2.val).ok
       /\ is_relative_to(path_parts(call.val.val), resolve(fs, call.a2.val).path)

\* C15: for each of the tokens "..", "~/" and "$HOME", a call whose input
\* contains the token and whose resolved path (inside the base directory, when
\* one is given) contains it too fails with "File path contains suspicious
\* patterns".
C15_surviving_token_is_rejected ==
    \A i \in 1..Len(suspicious_patterns) :
        (/\ call.op = "validate_file_path"
         /\ call.a1.kind = "str"
         /\ ~contains(call.a1.val, NUL)
         /\ resolve(fs, call.a1.val).ok
         /\ call.err # "File path is outside allowed directory"
         /\ call.raised # "RuntimeError"
         /\ contains(call.a1.val, suspicious_patterns[i])
         /\ contains(path_str(resolve(fs, call.a1.val).path), suspicious_patterns[i]))
        => /\ call.raised = "ValidationError"
           /\ call.err = "File path contains suspicious patterns"

-----------------------------------------------------------------------------
(* Claims about sanitize_html *)

RAW_HTML_CHARS == <<"<", ">", "\"", "'">>

RECURSIVE ampersands_are_entities(_)
\* every & of s starts one of the five entities html.escape writes
ampersands_are_entities(s) ==
    IF s = "" THEN TRUE
    ELSE IF Ch(s, 1) # "&" THEN ampersands_are_entities(Tail(s))
    ELSE /\ \E e \in {"&amp;", "&lt;", "&gt;", "&quot;", "&#x27;"} :
              Len(s) >= Len(e) /\ SubSeq(s, 1, Len(e)) = e
         /\ ampersands_are_entities(Tail(s))

\* C16: for every input, string or not, the text sanitize_html returns holds
\* none of the raw characters < > " ' and is the escaped form of the input's
\* string form, every & written as an entity.
C16_sanitize_html_escapes_every_input ==
    call.op = "sanitize_html"
    => /\ \A i \in 1..Len(RAW_HTML_CHARS) : ~contains(call.val.val, RAW_HTML_CHARS[i])
       /\ ampersands_are_entities(call.val.val)
       /\ call.val.val = html_escape(py_str(call.a1))

-----------------------------------------------------------------------------
(* validation.py: the validators of an uploaded file *)

MAX_FILENAME_LENGTH == 255
ALLOWED_EXTENSIONS == {"txt"}
MAX_FILE_SIZE == 16 * 1024 * 1024

\* s.rsplit(c, 1)[1] for an s that holds c
rsplit_last(s, c) == split(s, c)[Len(split(s, c))]

\* validation.validate_filename
validate_filename(filename) ==
    IF filename.kind # "str" THEN Raise("Filename must be a string")
    ELSE IF strip(filename.val) = "" THEN Raise("Filename cannot be empty")
    ELSE Only({
         IF Len(name) > MAX_FILENAME_LENGTH
         THEN Raise("Filename cannot exceed 255 characters")
         ELSE IF \E c \in {NUL, "/", "\\"} : contains(name, c)
         THEN Raise("Filename contains invalid characters")
         ELSE IF Ch(name, 1) = "."
         THEN Raise("Hidden files are not allowed")
         ELSE IF ~contains(name, ".")
         THEN Raise("File must have an extension")
         ELSE IF lower(rsplit_last(name, ".")) \notin ALLOWED_EXTENSIONS
         THEN Raise("Only txt files are allowed")
         ELSE Return(PyStr(name))
         : name \in {strip(filename.val)}})

\* validation.validate_file_size
validate_file_size(size) ==
    IF size.kind # "int" THEN Raise("File size must be an integer")
    ELSE IF size.val < 0 THEN Raise("File size cannot be negative")
    ELSE IF size.val > MAX_FILE_SIZE THEN Raise("File size cannot exceed 16MB")
    ELSE IF size.val = 0 THEN Raise("File cannot be empty")
    ELSE Return(None)

\* The bytes of a file: utf8 says whether they decode as UTF-8, text is the
\* decoded text, and pad counts further characters "x" at the end of the last
\* line, which is then a comment line ("#...").
Bytes(utf8, text, pad) == [utf8 |-> utf8, text |-> text, pad |-> pad]

\* len(content)
len_bytes(content) == Len(content.text) + content.pad

\* the characters below 32 other than \n \r \t that a text of the model holds
\* (NUL is looked for first)
CONTROL_CHARS == {"\f"}

RECURSIVE control_char_count(_)
control_char_count(text) ==
    IF text = "" THEN 0
    ELSE (IF Ch(text, 1) \in CONTROL_CHARS THEN 1 ELSE 0) + control_char_count(Tail(text))

\* validation.validate_file_content;  count / len > 0.1  is  10 * count > len
validate_file_content(content) ==
    IF ~content.utf8 THEN Raise("File must be valid UTF-8 text")
    ELSE IF contains(content.text, NUL) THEN Raise("File appears to be binary, not text")
    ELSE IF /\ len_bytes(content) > 0
            /\ 10 * control_char_count(content.text) > len_bytes(content)
    THEN Raise("File contains too many control characters")
    ELSE Return(None)

-----------------------------------------------------------------------------
(* book_parser.parse_book_file on a text file *)

\* s.find(sub) + 1: the place of the first occurrence, 0 when there is none
index_of(s, sub) ==
    IF contains(s, sub)
    THEN CHOOSE i \in 1..(Len(s) - Len(sub) + 1) :
            /\ SubSeq(s, i, i + Len(sub) - 1) = sub
            /\ \A j \in 1..(i - 1) : SubSeq(s, j, j + Len(sub) - 1) # sub
    ELSE 0

\* line.split(sep, 1) of a line that holds sep, both parts stripped
split_once(line, sep) ==
    [title  |-> strip(SubSeq(line, 1, index_of(line, sep) - 1)),
     author |-> PyStr(strip(SubSeq(line, index_of(line, sep) + Len(sep), Len(line))))]

\* one stripped line that is neither empty nor a comment
parse_line(line) ==
    IF contains(line, " by ") THEN split_once(line, " by ")
    ELSE IF contains(line, " - ") THEN split_once(line, " - ")
    ELSE [title |-> line, author |-> None]

RECURSIVE parse_lines(_)
parse_lines(lines) ==
    IF lines = <<>> THEN <<>>
    ELSE IF strip(Head(lines)) = "" \/ Ch(strip(Head(lines)), 1) = "#"
         THEN parse_lines(Tail(lines))
    ELSE <<parse_line(strip(Head(lines)))>> \o parse_lines(Tail(lines))

\* the lines of a file opened in text mode: \r, \n and \r\n end a line
text_lines(text) == split(replace_char(text, "\r", "\n"), "\n")

\* parse_book_file(path) for a path that does not end in .csv, on the
\* content of the file
parse_book_file(content) == parse_lines(text_lines(content.text))

-----------------------------------------------------------------------------
(* web_app.add_from_file: the upload handler, one stage a step *)

\* Returns whether the extension is allowed
allowed_file(filename) ==
    /\ contains(filename, ".")
    /\ lower(rsplit_last(filename, ".")) \in ALLOWED_EXTENSIONS

SAFE_FILENAME_CHARS ==
    {Ch(UPPERCASE, i) : i \in 1..Len(UPPERCASE)} \cup
    {Ch(LOWERCASE, i) : i \in 1..Len(LOWERCASE)} \cup
    {Ch(DIGITS, i) : i \in 1..Len(DIGITS)} \cup {"_", ".", "-"}

RECURSIVE join_words(_)
\* "_".join(s.split()) of a stripped s
join_words(s) ==
    IF s = "" THEN ""
    ELSE IF Ch(s, 1) \in WHITESPACE THEN "_" \o join_words(lstrip(s))
    ELSE Ch(s, 1) \o join_words(Tail(s))

RECURSIVE keep_chars(_, _)
keep_chars(s, allowed) ==
    IF s = "" THEN ""
    ELSE (IF Ch(s, 1) \in allowed THEN Ch(s, 1) ELSE "") \o keep_chars(Tail(s), allowed)

RECURSIVE strip_chars(_, _)
\* s.strip(chars)
strip_chars(s, chars) ==
    IF s = "" THEN ""
    ELSE IF Ch(s, 1) \in chars THEN strip_chars(Tail(s), chars)
    ELSE IF Ch(s, Len(s)) \in chars THEN strip_chars(SubSeq(s, 1, Len(s) - 1), chars)
    ELSE s

\* werkzeug.utils.secure_filename on ASCII text
secure_filename(filename) ==
    strip_chars(keep_chars(join_words(strip(replace_char(filename, "/", " "))),
                           SAFE_FILENAME_CHARS),
                {".", "_"})

\* os.path.join(folder, name) for a name that is not absolute
path_join(folder, name) == folder \o "/" \o name

current_user_id == PyInt(1)

\* files under the upload folder: a function from path to content
put_file(d, path, content) ==
    [p \in DOMAIN d \cup {path} |-> IF p = path THEN content ELSE d[p]]

remove_file(d, path) == [p \in DOMAIN d \ {path} |-> d[p]]

FilenameInputs ==
    {"books.txt", " my books.TXT", "a.txt ", "books.csv", ".hidden.txt", "a/b.txt",
     "a..txt", "link.txt", "noext"}

ContentInputs ==
    {Bytes(TRUE, "T1 by A1\nT2 - A2\n", 0),
     Bytes(TRUE, "<script>x by A\r\nGood by B\n", 0),
     Bytes(TRUE, "Lonely\n# no author\n", 0),
     Bytes(TRUE, "# nothing\n\n", 0),
     Bytes(TRUE, "T by A\nT by A\n", 0),
     Bytes(TRUE, "", 0),
     Bytes(TRUE, "#", MAX_FILE_SIZE - 1),
     Bytes(TRUE, "#", MAX_FILE_SIZE),
     Bytes(FALSE, "", 4),
     Bytes(TRUE, "a" \o NUL, 0),
     Bytes(TRUE, "\f\fT by A\n", 0)}

\* the upload folder with nothing in it, or with a link out of it
UploadFs ==
    {[cwd |-> <<"home", "u">>, links |-> <<>>],
     [cwd |-> <<"home", "u">>,
      links |-> [l \in {<<"tmp", "uploads", "link.txt">>} |-> "/etc/passwd"]]}

NoBytes == Bytes(TRUE, "", 0)

NoUpload ==
    [pc |-> "idle", filename |-> "", content |-> NoBytes, path |-> "", log |-> <<>>,
     records |-> <<>>, i |-> 0, valid |-> [title |-> "", author |-> ""],
     added_count |-> 0, validation_errors |-> 0, flash |-> "", written |-> FALSE]

UploadInit ==
    /\ IdleGui
    /\ IdleStore
    /\ IdleRace
    /\ IdleConfig
    /\ IdleSummary
    /\ IdleUsers
    /\ call = "unused"
    /\ fs \in UploadFs
    /\ disk = <<>>
    /\ upload = NoUpload

\* an entry of the log of stages run: raised names the exception, if any
Stage(name, ok, rec, raised) ==
    [stage |-> name, ok |-> ok, rec |-> rec, raised |-> raised]

\* what every step of the handler leaves alone
upload_frame ==
    UNCHANGED <<last, pc, args, result, calls, environ, secret_files, cloud, cfg,
                lookup, boot, fs, call, ai, users, reg, gui>>

\* POST /add-from-file with a file whose filename is not empty
PostFile ==
    /\ upload.pc = "idle"
    /\ \E filename \in FilenameInputs, content \in ContentInputs :
         upload' = [upload EXCEPT !.pc = "filename", !.filename = filename,
                                  !.content = content]
    /\ UNCHANGED <<books, seq, disk>>
    /\ upload_frame

\* lines 358-363
ValidateFilename ==
    /\ upload.pc = "filename"
    /\ \E r \in {validate_filename(PyStr(upload.filename))} :
         upload' = [upload EXCEPT
            !.pc = IF r.ok THEN "type" ELSE "returned",
            !.log = Append(@, Stage("filename", r.ok, 0, IF r.ok THEN "" ELSE "ValidationError")),
            !.flash = IF r.ok THEN @ ELSE "Invalid filename: " \o r.err]
    /\ UNCHANGED <<books, seq, disk>>
    /\ upload_frame

\* lines 365 and 447-449
CheckAllowedFile ==
    /\ upload.pc = "type"
    /\ \E ok \in {allowed_file(upload.filename)} :
         upload' = [upload EXCEPT
            !.pc = IF ok THEN "size" ELSE "returned",
            !.log = Append(@, Stage("type", ok, 0, "")),
            !.flash = IF ok THEN @ ELSE "Invalid file type. Only .txt files are allowed."]
    /\ UNCHANGED <<books, seq, disk>>
    /\ upload_frame

\* lines 368-371 and 376-379
ValidateFileSize ==
    /\ upload.pc = "size"
    /\ \E r \in {validate_file_size(PyInt(len_bytes(upload.content)))} :
         upload' = [upload EXCEPT
            !.pc = IF r.ok THEN "content" ELSE "returned",
            !.log = Append(@, Stage("size", r.ok, 0, IF r.ok THEN "" ELSE "ValidationError")),
            !.flash = IF r.ok THEN @ ELSE "Invalid file: " \o r.err]
    /\ UNCHANGED <<books, seq, disk>>
    /\ upload_frame

\* lines 373-379
ValidateFileContent ==
    /\ upload.pc = "content"
    /\ \E r \in {validate_file_content(upload.content)} :
         upload' = [upload EXCEPT
            !.pc = IF r.ok THEN "path" ELSE "returned",
            !.log = Append(@, Stage("content", r.ok, 0,
                                 IF r.ok THEN "" ELSE "ValidationError")),
            !.flash = IF r.ok THEN @ ELSE "Invalid file: " \o r.err]
    /\ UNCHANGED <<books, seq, disk>>
    /\ upload_frame

\* lines 381-391
ValidateFilePathOfUpload ==
    /\ upload.pc = "path"
    /\ \E r \in {validate_file_path(fs,
                    PyStr(path_join(UPLOAD_FOLDER, secure_filename(upload.filename))),
                    PyStr(UPLOAD_FOLDER))} :
         upload' = [upload EXCEPT
            !.pc = IF r.raised = "" THEN "write" ELSE "returned",
            !.path = r.val,
            !.log = Append(@, Stage("path", r.raised = "", 0, r.raised)),
            !.flash = IF r.raised = "" THEN @ ELSE "Invalid file path."]
    /\ UNCHANGED <<books, seq, disk>>
    /\ upload_frame

\* lines 393-395, outside the try: open() or write() may raise OSError, which
\* leaves the handler; a write that fails midway leaves the bytes written so far
WriteFile ==
    /\ upload.pc = "write"
    /\ \E outcome \in {"written", "open failed", "write failed"} :
         /\ disk' = CASE outcome = "written" -> put_file(disk, upload.path, upload.content)
                      [] outcome = "open failed" -> disk
                      [] outcome = "write failed" -> put_file(disk, upload.path, NoBytes)
         /\ upload' = [upload EXCEPT
                !.pc = IF outcome = "written" THEN "parse" ELSE "raised",
                !.written = (outcome = "written"),
                !.log = Append(@, Stage("write", outcome = "written", 0,
                                       IF outcome = "written" THEN "" ELSE "OSError"))]
    /\ UNCHANGED <<books, seq>>
    /\ upload_frame

\* lines 397-402 and 438-440: reading the file may raise OSError
ParseFile ==
    /\ upload.pc = "parse"
    /\ \E outcome \in {"parsed", "OSError"} :
       \E parsed \in {parse_book_file(disk[upload.path])} :
         upload' = [upload EXCEPT
            !.pc = IF outcome = "parsed" /\ parsed # <<>> THEN "records" ELSE "finally",
            !.records = IF outcome = "parsed" THEN parsed ELSE <<>>,
            !.i = 1,
            !.log = Append(@, Stage("parse", outcome = "parsed", 0,
                               IF outcome = "parsed" THEN "" ELSE "OSError")),
            !.flash = IF outcome # "parsed" THEN "Error processing file: OSError"
                      ELSE IF parsed = <<>> THEN "No books found in file."
                      ELSE @]
    /\ UNCHANGED <<books, seq, disk>>
    /\ upload_frame

\* lines 410-413: a record without an author is passed over
SkipRecord ==
    /\ upload.pc = "records"
    /\ upload.i <= Len(upload.records)
    /\ upload.records[upload.i].author \in {None, PyStr("")}
    /\ upload' = [upload EXCEPT !.i = @ + 1]
    /\ UNCHANGED <<books, seq, disk>>
    /\ upload_frame

\* lines 415-421 with a failed validation leading on to storage all the same
ValidateRecord_stores_invalid ==
    /\ upload.pc = "records"
    /\ upload.i <= Len(upload.records)
    /\ upload.records[upload.i].author \notin {None, PyStr("")}
    /\ \E v \in {validate_all_book_data(PyStr(upload.records[upload.i].title),
                                        upload.records[upload.i].author, None)} :
         upload' = [upload EXCEPT
            !.pc = "store",
            !.valid = IF v.ok THEN [title |-> v.title, author |-> v.author]
                      ELSE [title |-> upload.records[upload.i].title,
                            author |-> upload.records[upload.i].author.val],
            !.validation_errors = IF v.ok THEN @ ELSE @ + 1,
            !.log = Append(@, Stage("record", v.ok, upload.i,
                                 IF v.ok THEN "" ELSE "ValidationError"))]
    /\ UNCHANGED <<books, seq, disk>>
    /\ upload_frame

\* lines 415-421
ValidateRecord ==
    /\ upload.pc = "records"
    /\ upload.i <= Len(upload.records)
    /\ upload.records[upload.i].author \notin {None, PyStr("")}
    /\ \E v \in {validate_all_book_data(PyStr(upload.records[upload.i].title),
                                        upload.records[upload.i].author, None)} :
         upload' = [upload EXCEPT
            !.pc = IF v.ok THEN "store" ELSE "records",
            !.i = IF v.ok THEN @ ELSE @ + 1,
            !.valid = IF v.ok THEN [title |-> v.title, author |-> v.author] ELSE @,
            !.validation_errors = IF v.ok THEN @ ELSE @ + 1,
            !.log = Append(@, Stage("record", v.ok, upload.i,
                                 IF v.ok THEN "" ELSE "ValidationError"))]
    /\ UNCHANGED <<books, seq, disk>>
    /\ upload_frame

\* lines 423-431 and 438-440: add_book returns, raises ValidationError (the
\* record is counted and the loop goes on) or raises sqlite3.OperationalError
\* (the loop is left)
StoreRecord ==
    /\ upload.pc = "store"
    /\ \E outcome \in {"add_book", "OperationalError"} :
       \E r \in {add_book(books, seq, PyStr(upload.valid.title),
                          PyStr(upload.valid.author), None, current_user_id)} :
         /\ books' = IF outcome = "add_book" THEN r.books ELSE books
         /\ seq' = IF outcome = "add_book" THEN r.seq ELSE seq
         /\ upload' = [upload EXCEPT
                !.pc = IF outcome = "add_book" THEN "records" ELSE "finally",
                !.i = @ + 1,
                !.added_count =
                    IF outcome = "add_book" /\ r.raised = "" /\ r.ret # PyInt(-1)
                    THEN @ + 1 ELSE @,
                !.validation_errors =
                    IF outcome = "add_book" /\ r.raised # "" THEN @ + 1 ELSE @,
                !.log = Append(@, Stage("store", outcome = "add_book" /\ r.raised = "",
                                        upload.i,
                                        IF outcome = "add_book" THEN r.raised
                                        ELSE outcome)),
                !.flash = IF outcome = "add_book" THEN @
                          ELSE "Error processing file: OperationalError"]
    /\ UNCHANGED disk
    /\ upload_frame

\* lines 433-436: the loop is over
FinishRecords ==
    /\ upload.pc = "records"
    /\ upload.i > Len(upload.records)
    /\ upload' = [upload EXCEPT
          !.pc = "finally",
          !.flash = "Successfully added " \o str_of_nat(upload.added_count)
                    \o " book(s) from file."
                    \o (IF upload.validation_errors > 0
                        THEN " Skipped " \o str_of_nat(upload.validation_errors)
                             \o " invalid entries."
                        ELSE "")]
    /\ UNCHANGED <<books, seq, disk>>
    /\ upload_frame

\* the finally clause that leaves the file where it is
Cleanup_keeps_file ==
    /\ upload.pc = "finally"
    /\ upload' = [upload EXCEPT !.pc = "returned",
                                !.log = Append(@, Stage("cleanup", TRUE, 0, ""))]
    /\ UNCHANGED <<books, seq, disk>>
    /\ upload_frame

\* lines 441-446: the finally clause, then the return
Cleanup ==
    /\ upload.pc = "finally"
    /\ disk' = IF upload.path \in DOMAIN disk THEN remove_file(disk, upload.path) ELSE disk
    /\ upload' = [upload EXCEPT !.pc = "returned",
                                !.log = Append(@, Stage("cleanup", TRUE, 0, ""))]
    /\ UNCHANGED <<books, seq>>
    /\ upload_frame

UploadNext ==
    \/ PostFile
    \/ ValidateFilename
    \/ CheckAllowedFile
    \/ ValidateFileSize
    \/ ValidateFileContent
    \/ ValidateFilePathOfUpload
    \/ WriteFile
    \/ ParseFile
    \/ SkipRecord
    \/ ValidateRecord
    \/ StoreRecord
    \/ FinishRecords
    \/ Cleanup

SpecUpload == UploadInit /\ [][UploadNext]_vars

-----------------------------------------------------------------------------
(* Claims about the upload handler *)

\* the stages of the chain, in the order of the handler; the check of the
\* file type belongs to the validation of the filename
STAGE_ORDER == <<"filename", "type", "size", "content", "path", "write", "parse",
                 "record", "store">>

FILE_STAGES == {"filename", "type", "size", "content", "path", "write", "parse"}

stage_rank(name) == CHOOSE k \in 1..Len(STAGE_ORDER) : STAGE_ORDER[k] = name

is_chain_stage(e) == \E k \in 1..Len(STAGE_ORDER) : STAGE_ORDER[k] = e.stage

\* C11 as stated: the stages run in the order of the chain, and a failure at
\* any stage, per-record validation included, prevents every later stage
\* from running.
C11_any_failure_stops_the_chain ==
    \A i, j \in 1..Len(upload.log) :
        (i < j /\ is_chain_stage(upload.log[i]) /\ is_chain_stage(upload.log[j]))
        => upload.log[i].ok

\* C11, amended: the stages run in the order filename validation, size
\* validation, content validation, path validation, write, parse, and then for
\* each record its validation followed by its storage; a failure of a stage
\* of the file stops every later stage, a storage error other than a
\* ValidationError stops the remaining records, a record whose validation
\* failed never reaches storage while the records after it are still
\* processed; no byte is on disk unless filename, size, content and path
\* validation all succeeded on the upload.
C11_staged_upload ==
    /\ \A i, j \in 1..Len(upload.log) :
          (i < j /\ is_chain_stage(upload.log[i]) /\ is_chain_stage(upload.log[j]))
          => /\ upload.log[i].stage \in FILE_STAGES
                => /\ upload.log[i].ok
                   /\ stage_rank(upload.log[i].stage) < stage_rank(upload.log[j].stage)
             /\ upload.log[i].stage \notin FILE_STAGES
                => /\ upload.log[i].rec <= upload.log[j].rec
                   /\ upload.log[i].raised \in {"", "ValidationError"}
    /\ \A j \in 1..Len(upload.log) :
          upload.log[j].stage = "store"
          => /\ j > 1
             /\ upload.log[j - 1] = Stage("record", TRUE, upload.log[j].rec, "")
    /\ \A j \in 1..Len(upload.log) :
          (is_chain_stage(upload.log[j]) /\ j > 1 /\ upload.log[j].stage # "record")
          => /\ is_chain_stage(upload.log[j - 1])
             /\ stage_rank(upload.log[j - 1].stage) = stage_rank(upload.log[j].stage) - 1
    /\ (DOMAIN disk # {} \/ \E j \in 1..Len(upload.log) : upload.log[j].stage = "write")
       => /\ validate_filename(PyStr(upload.filename)).ok
          /\ allowed_file(upload.filename)
          /\ validate_file_size(PyInt(len_bytes(upload.content))).ok
          /\ validate_file_content(upload.content).ok
          /\ DOMAIN disk \subseteq {upload.path}
          /\ is_relative_to(path_parts(upload.path), resolve(fs, UPLOAD_FOLDER).path)
          /\ upload.path # path_str(resolve(fs, UPLOAD_FOLDER).path)

\* a record was refused, a later record was stored, and the handler returned
C11_witness ==
    /\ upload.pc = "returned"
    /\ \E i, j \in 1..Len(upload.log) :
          /\ i < j
          /\ upload.log[i].stage = "record" /\ ~upload.log[i].ok
          /\ upload.log[j].stage = "store" /\ upload.log[j].ok
    /\ upload.added_count = 1
    /\ \E b \in books : b.title = "Good"

\* C12: once the handler has written the uploaded file under the upload
\* folder, the file is gone when the handler returns, on every path: no books
\* parsed, parse error, records refused, storage error, success.
C12_uploaded_file_removed_on_return ==
    (upload.pc = "returned" /\ upload.written) => upload.path \notin DOMAIN disk

\* the file was written, a record was refused, another stored, the handler
\* returned
C12_witness ==
    /\ upload.pc = "returned"
    /\ upload.written
    /\ upload.validation_errors > 0
    /\ upload.added_count > 0
    /\ upload.log[Len(upload.log)].stage = "cleanup"

-----------------------------------------------------------------------------
(* ai_service.py: SummaryGenerator *)

\* Config.get_google_ai_api_key, on the value get_secret('GOOGLE_AI_API_KEY')
\* returned: [raised, val]
get_google_ai_api_key(key, is_production) ==
    IF key # None /\ key.val \in INSECURE_DEFAULTS.GOOGLE_AI_API_KEY
    THEN [raised |-> "", val |-> None]
    ELSE IF truthy(key) /\ ~validate_api_key("GOOGLE_AI_API_KEY", key)
    THEN IF is_production THEN [raised |-> "ConfigurationError", val |-> None]
         ELSE [raised |-> "", val |-> None]
    ELSE [raised |-> "", val |-> key]

\* SummaryGenerator.__init__: [raised, api_key]
SummaryGenerator(api_key, key, is_production) ==
    IF truthy(api_key) THEN [raised |-> "", api_key |-> api_key.val]
    ELSE Only({
         IF k.raised # "" THEN [raised |-> k.raised, api_key |-> ""]
         ELSE IF ~truthy(k.val) THEN [raised |-> "ValueError", api_key |-> ""]
         ELSE [raised |-> "", api_key |-> k.val.val]
         : k \in {get_google_ai_api_key(key, is_production)}})

RECURSIVE replace(_, _, _)
\* s.replace(old, new) for a non-empty old: occurrences are taken from the
\* left and do not overlap
replace(s, old, new) ==
    IF Len(s) < Len(old) THEN s
    ELSE IF SubSeq(s, 1, Len(old)) = old
         THEN new \o replace(SubSeq(s, Len(old) + 1, Len(s)), old, new)
    ELSE Ch(s, 1) \o replace(Tail(s), old, new)

RECURSIVE replace_first(_, _, _)
replace_first(s, old, new) ==
    IF Len(s) < Len(old) THEN s
    ELSE IF SubSeq(s, 1, Len(old)) = old
         THEN new \o SubSeq(s, Len(old) + 1, Len(s))
    ELSE Ch(s, 1) \o replace_first(Tail(s), old, new)

\* what generate_content does: it returns a response with a text or raises
\* an exception whose str() is text
Response(kind, text) == [kind |-> kind, text |-> text]

\* generate_summary that redacts the first occurrence of the key only
generate_summary_redacts_first(api_key, title, author, response) ==
    IF response.kind = "text" /\ response.text # ""
    THEN [raised |-> "", err |-> "", val |-> strip(response.text), error_msg |-> ""]
    ELSE Only({
         [raised |-> "ValueError",
          err |-> "Error generating summary: " \o
                  (IF api_key # "" /\ contains(error_msg, api_key)
                   THEN replace_first(error_msg, api_key, "[REDACTED]")
                   ELSE error_msg),
          val |-> "", error_msg |-> error_msg]
         : error_msg \in {IF response.kind = "text"
                          THEN "No content generated from the AI model"
                          ELSE response.text}})

\* SummaryGenerator.generate_summary: [raised, err, val, error_msg]; error_msg
\* is str(e) of the exception caught
generate_summary(api_key, title, author, response) ==
    IF response.kind = "text" /\ response.text # ""
    THEN [raised |-> "", err |-> "", val |-> strip(response.text), error_msg |-> ""]
    ELSE Only({
         [raised |-> "ValueError",
          err |-> "Error generating summary: " \o
                  (IF api_key # "" /\ contains(error_msg, api_key)
                   THEN replace(error_msg, api_key, "[REDACTED]")
                   ELSE error_msg),
          val |-> "", error_msg |-> error_msg]
         : error_msg \in {IF response.kind = "text"
                          THEN "No content generated from the AI model"
                          ELSE response.text}})

-----------------------------------------------------------------------------
(* The front-ends that ask for summaries: the import of a file of books by
   bookshelf.py and the summaries page of web_app.py, one book a step *)

MaxSelected == 2    \* books of one import, ids of one selection

\* a call of generate_summary, as the front-end saw it
SummaryCall(item, book_id, before, g) ==
    [item |-> item, book_id |-> book_id, before |-> before, text |-> g.error_msg,
     raised |-> g.raised, err |-> g.err]

\* the summary of the row with this id, None when there is no such row
summary_of(b, book_id) ==
    IF \E r \in b : r.id = book_id.val
    THEN (CHOOSE r \in b : r.id = book_id.val).summary
    ELSE None

\* _add_single_book that takes the book back when its summary fails
add_single_book_rolls_back(b, s, service, item, title, author, response) ==
    Only({
    IF a.raised # ""
    THEN [books |-> b, seq |-> s, raised |-> a.raised, called |-> <<>>, out |-> ""]
    ELSE IF a.ret = PyInt(-1)
    THEN [books |-> a.books, seq |-> a.seq, raised |-> "", called |-> <<>>,
          out |-> "Book already exists in database."]
    ELSE IF truthy(summary_of(a.books, a.ret))
    THEN [books |-> a.books, seq |-> a.seq, raised |-> "", called |-> <<>>,
          out |-> "Book already has a summary."]
    ELSE IF service = ""
    THEN [books |-> a.books, seq |-> a.seq, raised |-> "", called |-> <<>>,
          out |-> "Book added (no summary - AI service not available)"]
    ELSE Only({
         IF g.raised # ""
         THEN [books |-> b, seq |-> a.seq, raised |-> "",
               called |-> <<SummaryCall(item, a.ret, summary_of(a.books, a.ret), g)>>,
               out |-> "Error generating summary: " \o g.err]
         ELSE Only({
              [books |-> u.books, seq |-> a.seq, raised |-> "",
               called |-> <<SummaryCall(item, a.ret, summary_of(a.books, a.ret), g)>>,
               out |-> IF u.raised = "" THEN "Summary generated and saved."
                       ELSE "Error generating summary: " \o u.err]
              : u \in {update_summary(a.books, a.ret, PyStr(g.val), None)}})
         : g \in {generate_summary(service, title, author, response)}})
    : a \in {add_book(b, s, PyStr(title), PyStr(author), None, None)}})

\* BookshelfApp._add_single_book: [books, seq, raised, called, out]; called
\* holds the call of generate_summary, if one was made
add_single_book(b, s, service, item, title, author, response) ==
    Only({
    IF a.raised # ""
    THEN [books |-> b, seq |-> s, raised |-> a.raised, called |-> <<>>, out |-> ""]
    ELSE IF a.ret = PyInt(-1)
    THEN [books |-> a.books, seq |-> a.seq, raised |-> "", called |-> <<>>,
          out |-> "Book already exists in database."]
    ELSE IF truthy(summary_of(a.books, a.ret))
    THEN [books |-> a.books, seq |-> a.seq, raised |-> "", called |-> <<>>,
          out |-> "Book already has a summary."]
    ELSE IF service = ""
    THEN [books |-> a.books, seq |-> a.seq, raised |-> "", called |-> <<>>,
          out |-> "Book added (no summary - AI service not available)"]
    ELSE Only({
         IF g.raised # ""
         THEN [books |-> a.books, seq |-> a.seq, raised |-> "",
               called |-> <<SummaryCall(item, a.ret, summary_of(a.books, a.ret), g)>>,
               out |-> "Error generating summary: " \o g.err]
         ELSE Only({
              [books |-> u.books, seq |-> a.seq, raised |-> "",
               called |-> <<SummaryCall(item, a.ret, summary_of(a.books, a.ret), g)>>,
               out |-> IF u.raised = "" THEN "Summary generated and saved."
                       ELSE "Error generating summary: " \o u.err]
              : u \in {update_summary(a.books, a.ret, PyStr(g.val), None)}})
         : g \in {generate_summary(service, title, author, response)}})
    : a \in {add_book(b, s, PyStr(title), PyStr(author), None, None)}})

\* one round of the loop of generate_summaries (web_app.py lines 506-528):
\* [books, outcome, called]
generate_one(b, service, item, book_id, allowed, response) ==
    IF get_book(b, book_id, current_user_id).ret = {}
    THEN [books |-> b, outcome |-> "missing", called |-> <<>>]
    ELSE IF truthy(summary_of(b, book_id))
    THEN [books |-> b, outcome |-> "skipped", called |-> <<>>]
    ELSE IF ~allowed
    THEN [books |-> b, outcome |-> "rate limited", called |-> <<>>]
    ELSE Only({
         IF g.raised # ""
         THEN [books |-> b, outcome |-> "failed",
               called |-> <<SummaryCall(item, book_id, summary_of(b, book_id), g)>>]
         ELSE Only({
              [books |-> u.books,
               outcome |-> IF u.raised = "" THEN "success" ELSE "failed",
               called |-> <<SummaryCall(item, book_id, summary_of(b, book_id), g)>>]
              : u \in {update_summary(b, book_id, PyStr(g.val), current_user_id)}})
         : g \in {generate_summary(service, (CHOOSE r \in b : r.id = book_id.val).title,
                                   (CHOOSE r \in b : r.id = book_id.val).author,
                                   response)}})

\* keys the configuration may hold; the last two lead to no service
SummaryKeySettings ==
    {PyStr("AIzaSy-0123456789_abcd"), PyStr(repeat("ab", 10)),
     PyStr("REDACTED-REDACTED-REDACTED\n"), PyStr("test_key"), None}

\* what the API answers when the key is k
Responses(k) ==
    {Response("text", " S \n"), Response("text", "  "), Response("text", ""),
     Response("text", "<script>alert(1)</script>"),
     Response("raise", "429 quota exceeded"),
     Response("raise", "400 API key not valid: " \o k),
     Response("raise", "GET /v1beta?key=" \o k \o "&alt=" \o k \o " failed"),
     Response("raise", k \o k),
     Response("raise", "[" \o k \o SubSeq(k, 3, Len(k)) \o "]")}

ImportBooks == {<<"T", "A">>, <<"U", "A">>, <<"<script>", "A">>}

\* lists of at most n members of S, the empty list left out
RECURSIVE lists_upto(_, _)
lists_upto(S, n) ==
    IF n = 0 THEN {}
    ELSE {<<x>> : x \in S} \cup
         {Append(l, x) : l \in lists_upto(S, n - 1), x \in S}

ImportInputs == lists_upto(ImportBooks, MaxSelected)
SelectionInputs == lists_upto({PyInt(1), PyInt(2), PyInt(3)}, MaxSelected)

\* a front-end between two runs: service is the key of its SummaryGenerator
\* ("" when it has none), limited says that the session has asked before
NoSummaryRun(service, limited) ==
    [service |-> service, limited |-> limited, pc |-> "idle", todo |-> <<>>, k |-> 0,
     calls |-> <<>>, success_count |-> 0, skipped_count |-> 0, error_count |-> 0,
     out |-> ""]

SummaryInit ==
    /\ IdleGui
    /\ IdleStore
    /\ IdleRace
    /\ IdleConfig
    /\ IdleFiles
    /\ IdleUpload
    /\ IdleUsers
    /\ \E key \in SummaryKeySettings :
         \E g \in {SummaryGenerator(None, key, FALSE)} :
            ai = NoSummaryRun(g.api_key, FALSE)

summary_frame ==
    UNCHANGED <<last, pc, args, result, calls, environ, secret_files, cloud, cfg,
                lookup, boot, fs, call, disk, upload, users, reg, gui>>

\* bookshelf.py add_book_from_file, lines 32-52: the file holds these books
StartImport ==
    /\ ai.pc = "idle"
    /\ \E todo \in ImportInputs :
         ai' = [NoSummaryRun(ai.service, ai.limited) EXCEPT
                   !.pc = "import", !.todo = todo, !.k = 1]
    /\ UNCHANGED <<books, seq>>
    /\ summary_frame

\* lines 52-54: one book of the file; a ValidationError of add_book leaves
\* the import
ImportBook ==
    /\ ai.pc = "import"
    /\ ai.k <= Len(ai.todo)
    /\ \E response \in Responses(ai.service) :
       \E r \in {add_single_book(books, seq, ai.service, ai.k, ai.todo[ai.k][1],
                                 ai.todo[ai.k][2], response)} :
         /\ books' = r.books
         /\ seq' = r.seq
         /\ ai' = [ai EXCEPT !.pc = IF r.raised # "" THEN "raised" ELSE @,
                             !.k = @ + 1,
                             !.calls = @ \o r.called,
                             !.out = r.out]
    /\ summary_frame

\* web_app.py generate_summaries, lines 480-504: these ids are selected
StartGenerate ==
    /\ ai.pc = "idle"
    /\ ai.service # ""
    /\ \E todo \in SelectionInputs :
         ai' = [NoSummaryRun(ai.service, ai.limited) EXCEPT
                   !.pc = "generate", !.todo = todo, !.k = 1]
    /\ UNCHANGED <<books, seq>>
    /\ summary_frame

\* lines 506-528: one id of the selection; allowed says whether five seconds
\* have passed since the last request of the session
GenerateOne ==
    /\ ai.pc = "generate"
    /\ ai.k <= Len(ai.todo)
    /\ \E response \in Responses(ai.service),
          allowed \in IF ai.limited THEN BOOLEAN ELSE {TRUE} :
       \E r \in {generate_one(books, ai.service, ai.k, ai.todo[ai.k], allowed, response)} :
         /\ books' = r.books
         /\ ai' = [ai EXCEPT
               !.pc = IF r.outcome = "rate limited" THEN "finish" ELSE @,
               !.k = @ + 1,
               !.calls = @ \o r.called,
               !.limited = @ \/ r.called # <<>>,
               !.success_count = IF r.outcome = "success" THEN @ + 1 ELSE @,
               !.skipped_count = IF r.outcome = "skipped" THEN @ + 1 ELSE @,
               !.error_count = IF r.outcome \in {"missing", "failed"} THEN @ + 1 ELSE @,
               !.out = r.outcome]
    /\ UNCHANGED seq
    /\ summary_frame

\* the loop is over or was left: the front-end reports, and is ready for the
\* next run
FinishSummaries ==
    /\ \/ ai.pc \in {"import", "generate"} /\ ai.k > Len(ai.todo)
       \/ ai.pc \in {"finish", "raised"}
    /\ ai' = NoSummaryRun(ai.service, ai.limited)
    /\ UNCHANGED <<books, seq>>
    /\ summary_frame

SummaryNext ==
    \/ StartImport
    \/ ImportBook
    \/ StartGenerate
    \/ GenerateOne
    \/ FinishSummaries

SpecSummary == SummaryInit /\ [][SummaryNext]_vars

-----------------------------------------------------------------------------
(* Claims about summaries *)

\* the step made a call of generate_summary that failed
summary_call_failed ==
    /\ Len(ai'.calls) > Len(ai.calls)
    /\ ai'.calls[Len(ai'.calls)].raised # ""

\* C17: when a front-end handles a book and generate_summary fails, the row
\* of the book stays stored with the summary it had (none for a new book), no
\* other row is lost, generate_summary was called exactly once for the book
\* in that round, and the front-end goes on to the next book.
C17_summary_failure_keeps_the_book ==
    [][summary_call_failed
       => /\ Len(ai'.calls) = Len(ai.calls) + 1
          /\ \E r \in books' :
                /\ r.id = ai'.calls[Len(ai'.calls)].book_id.val
                /\ r.summary = ai'.calls[Len(ai'.calls)].before
                /\ r.summary = summary_of(books, ai'.calls[Len(ai'.calls)].book_id)
                /\ ai.pc = "import" => /\ r.title = ai.todo[ai.k][1]
                                       /\ r.author = ai.todo[ai.k][2]
          /\ \A r \in books : r \in books'
          /\ ai'.pc = ai.pc
          /\ ai'.k = ai.k + 1
          /\ ai'.calls[Len(ai'.calls)].item = ai.k]_vars

\* the summary of the first book failed, the book is stored without one, and
\* the second book was added and got its summary
C17_witness ==
    /\ ai.pc = "import"
    /\ Len(ai.calls) = 2
    /\ ai.calls[1].raised = "ValueError"
    /\ ai.calls[2].raised = ""
    /\ ai.calls[1].book_id # ai.calls[2].book_id
    /\ summary_of(books, ai.calls[1].book_id) = None
    /\ summary_of(books, ai.calls[2].book_id) = PyStr("S")

\* C18: the message of the ValueError that leaves generate_summary never
\* holds the configured API key; where the underlying error text held the
\* key, the message holds the marker [REDACTED] instead.
C18_error_message_never_holds_the_key ==
    \A i \in 1..Len(ai.calls) :
        ai.calls[i].raised # ""
        => /\ ai.calls[i].raised = "ValueError"
           /\ ~contains(ai.calls[i].err, ai.service)
           /\ SubSeq(ai.calls[i].err, 1, 26) = "Error generating summary: "
           /\ contains(ai.calls[i].text, ai.service)
              => contains(ai.calls[i].err, "[REDACTED]")
           /\ ~contains(ai.calls[i].text, ai.service)
              => ai.calls[i].err = "Error generating summary: " \o ai.calls[i].text

\* an error text that held the key twice left the wrapper without it
C18_witness ==
    \E i \in 1..Len(ai.calls) :
        /\ ai.calls[i].raised = "ValueError"
        /\ ai.calls[i].text = ai.service \o ai.service
        /\ ai.calls[i].err = "Error generating summary: [REDACTED][REDACTED]"

-----------------------------------------------------------------------------
(* auth.py: validate_email, validate_password, create_user; database.py: table
   users *)

MAX_EMAIL_LENGTH == 254
MIN_PASSWORD_LENGTH == 8
MAX_PASSWORD_LENGTH == 128

LETTERS ==
    {Ch(UPPERCASE, i) : i \in 1..Len(UPPERCASE)} \cup
    {Ch(LOWERCASE, i) : i \in 1..Len(LOWERCASE)}

DIGIT_CHARS == {Ch(DIGITS, i) : i \in 1..Len(DIGITS)}

all_in(s, chars) == \A i \in 1..Len(s) : Ch(s, i) \in chars

\* EMAIL_REGEX.match(s):  ^[a-zA-Z0-9._%+-]+@[a-zA-Z0-9.-]+\.[a-zA-Z]{2,}$
\* ($ also matches before one final newline)
EMAIL_REGEX_match(s) ==
    \E body \in {IF Len(s) > 0 /\ Ch(s, Len(s)) = "\n" THEN SubSeq(s, 1, Len(s) - 1)
                 ELSE s} :
    \E at \in 2..(Len(body) - 4) :
    \E dot \in (at + 2)..(Len(body) - 2) :
        /\ Ch(body, at) = "@"
        /\ Ch(body, dot) = "."
        /\ all_in(SubSeq(body, 1, at - 1),
                  LETTERS \cup DIGIT_CHARS \cup {".", "_", "%", "+", "-"})
        /\ all_in(SubSeq(body, at + 1, dot - 1), LETTERS \cup DIGIT_CHARS \cup {".", "-"})
        /\ all_in(SubSeq(body, dot + 1, Len(body)), LETTERS)

\* validate_email that trims and does not lower the case
validate_email_keeps_case(email) ==
    IF email.kind # "str" THEN Raise("Email must be a string")
    ELSE Only({
         IF e = "" THEN Raise("Email cannot be empty")
         ELSE IF Len(e) > MAX_EMAIL_LENGTH THEN Raise("Email address is too long")
         ELSE IF ~EMAIL_REGEX_match(e) THEN Raise("Invalid email format")
         ELSE Return(PyStr(e))
         : e \in {strip(email.val)}})

\* auth.validate_email
validate_email(email) ==
    IF email.kind # "str" THEN Raise("Email must be a string")
    ELSE Only({
         IF e = "" THEN Raise("Email cannot be empty")
         ELSE IF Len(e) > MAX_EMAIL_LENGTH THEN Raise("Email address is too long")
         ELSE IF ~EMAIL_REGEX_match(e) THEN Raise("Invalid email format")
         ELSE Return(PyStr(e))
         : e \in {lower(strip(email.val))}})

\* auth.validate_password
validate_password(password) ==
    IF password.kind # "str" THEN Raise("Password must be a string")
    ELSE IF Len(password.val) < MIN_PASSWORD_LENGTH
    THEN Raise("Password must be at least 8 characters long")
    ELSE IF Len(password.val) > MAX_PASSWORD_LENGTH
    THEN Raise("Password is too long (max 128 characters)")
    ELSE IF ~\E i \in 1..Len(password.val) :
                \E j \in 1..Len(LOWERCASE) : Ch(password.val, i) = Ch(LOWERCASE, j)
    THEN Raise("Password must contain at least one lowercase letter")
    ELSE IF ~\E i \in 1..Len(password.val) :
                \E j \in 1..Len(UPPERCASE) : Ch(password.val, i) = Ch(UPPERCASE, j)
    THEN Raise("Password must contain at least one uppercase letter")
    ELSE IF ~\E i \in 1..Len(password.val) : Ch(password.val, i) \in DIGIT_CHARS
    THEN Raise("Password must contain at least one digit")
    ELSE Return(password)

\* User.hash_password: bcrypt with a fresh salt
hash_password(password, salt) == "$2b$12$" \o salt \o "$" \o password

\* a row of users; created_at and verified take their defaults and are read
\* by no statement of a registration
UserRow(id, email, password_hash) ==
    [id |-> id, email |-> email, password_hash |-> password_hash]

\* SELECT * FROM users WHERE email = ?
get_user_by_email(u, email) == {r \in u.rows : r.email = email}

\* BookDatabase.create_user: the INSERT with its commit; UNIQUE(email) and
\* CHECK(length(email) <= 254) raise sqlite3.IntegrityError
db_create_user(u, email, password_hash) ==
    IF (\E r \in u.rows : r.email = email) \/ Len(email) > MAX_EMAIL_LENGTH
    THEN [users |-> u, raised |-> "IntegrityError", ret |-> None]
    ELSE [users |-> [rows |-> u.rows \cup {UserRow(u.seq + 1, email, password_hash)},
                     seq |-> u.seq + 1],
          raised |-> "", ret |-> PyInt(u.seq + 1)]

-----------------------------------------------------------------------------
(* Registrations: two requests in create_user on one database; a statement
   with its commit is one step *)

Registrants == {"r1", "r2"}

EmailInputs ==
    {PyStr("a@b.co"), PyStr("  A@B.Co\n"), PyStr("c.d+e@f-g.org"), PyStr("a@b"),
     PyStr("a b@c.de"), PyStr(" "),
     PyStr(repeat("A", MAX_EMAIL_LENGTH - 5) \o "@b.co"),
     PyStr(repeat("a", MAX_EMAIL_LENGTH - 4) \o "@b.co"), None}

PasswordInputs == {PyStr("Passw0rd"), PyStr("password")}

SaltInputs == {"abc"}

NoRegistration ==
    [pc |-> "idle", email |-> None, password |-> None, validated_email |-> "",
     validated_password |-> "", existed |-> FALSE, raised |-> "", err |-> "",
     ret |-> None, flash |-> ""]

UsersInit ==
    /\ IdleGui
    /\ IdleStore
    /\ IdleRace
    /\ IdleConfig
    /\ IdleFiles
    /\ IdleUpload
    /\ IdleSummary
    /\ users = [rows |-> {}, seq |-> 0]
    /\ reg = [p \in Registrants |-> NoRegistration]

users_frame ==
    UNCHANGED <<books, seq, last, pc, args, result, calls, environ, secret_files,
                cloud, cfg, lookup, boot, fs, call, disk, upload, ai, gui>>

\* what register (web_app.py lines 258-271) tells the user
register_flash(raised, err, ret) ==
    IF raised = "ValidationError" THEN "Registration failed: " \o err
    ELSE IF raised # "" THEN "An error occurred during registration. Please try again."
    ELSE IF ret = None THEN "An account with this email already exists."
    ELSE "Registration successful! Please log in."

\* auth.create_user lines 96-102: validation, then the SELECT
CreateUserCheck(p) ==
    /\ reg[p].pc = "idle"
    /\ \E email \in EmailInputs, password \in PasswordInputs :
       \E ve \in {validate_email(email)} :
       \E vp \in {IF ve.ok THEN validate_password(password) ELSE ve} :
       \E found \in {IF ve.ok /\ vp.ok THEN get_user_by_email(users, ve.val.val) # {}
                     ELSE FALSE} :
         reg' = [reg EXCEPT ![p] =
            [NoRegistration EXCEPT
                !.pc = IF ve.ok /\ vp.ok /\ ~found THEN "insert" ELSE "returned",
                !.email = email,
                !.password = password,
                !.validated_email = IF ve.ok THEN ve.val.val ELSE "",
                !.validated_password = IF ve.ok /\ vp.ok THEN vp.val.val ELSE "",
                !.raised = IF ve.ok /\ vp.ok THEN "" ELSE "ValidationError",
                !.err = IF ~ve.ok THEN ve.err ELSE vp.err,
                !.flash = IF ve.ok /\ vp.ok /\ ~found THEN ""
                          ELSE register_flash(
                                  IF ve.ok /\ vp.ok THEN "" ELSE "ValidationError",
                                  IF ~ve.ok THEN ve.err ELSE vp.err, None)]]
    /\ UNCHANGED users
    /\ users_frame

\* lines 104-110: the hash and the INSERT; existed says whether a row with
\* the email was there when the INSERT ran
CreateUserInsert(p) ==
    /\ reg[p].pc = "insert"
    /\ \E salt \in SaltInputs :
       \E r \in {db_create_user(users, reg[p].validated_email,
                                hash_password(reg[p].validated_password, salt))} :
         /\ users' = r.users
         /\ reg' = [reg EXCEPT ![p] =
               [@ EXCEPT !.pc = "returned",
                         !.existed = get_user_by_email(users, reg[p].validated_email) # {},
                         !.raised = r.raised,
                         !.ret = r.ret,
                         !.flash = register_flash(r.raised, "", r.ret)]]
    /\ users_frame

\* the request is answered; the registrant may send another
NextRequest(p) ==
    /\ reg[p].pc = "returned"
    /\ reg' = [reg EXCEPT ![p] = NoRegistration]
    /\ UNCHANGED users
    /\ users_frame

UsersNext ==
    \E p \in Registrants :
        \/ CreateUserCheck(p)
        \/ CreateUserInsert(p)
        \/ NextRequest(p)

SpecUsers == UsersInit /\ [][UsersNext]_vars

-----------------------------------------------------------------------------
(* Claims about users *)

\* C19: after any sequence of create_user calls every stored email is lower
\* case, trimmed and at most 254 characters long, and no two rows have emails
\* that are equal after trimming and lower-casing; so registering an email
\* that differs from a stored one only in case or surrounding whitespace adds
\* no row.
C19_stored_emails_normalized_and_unique ==
    /\ \A r \in users.rows :
          /\ r.email = lower(r.email)
          /\ r.email = strip(r.email)
          /\ Len(r.email) <= MAX_EMAIL_LENGTH
    /\ \A r1, r2 \in users.rows :
          lower(strip(r1.email)) = lower(strip(r2.email)) => r1 = r2
    /\ \A p \in Registrants :
          (reg[p].pc = "returned" /\ reg[p].raised = "" /\ reg[p].ret # None)
          => \E r \in users.rows : /\ r.id = reg[p].ret.val
                                   /\ r.email = lower(strip(reg[p].email.val))

\* a@b.co is stored, and the registration of "  A@B.Co\n" returned None and
\* added no row
C19_witness ==
    /\ \E r \in users.rows : r.email = "a@b.co"
    /\ Cardinality({r \in users.rows : lower(strip(r.email)) = "a@b.co"}) = 1
    /\ \E p \in Registrants :
          /\ reg[p].pc = "returned"
          /\ reg[p].email = PyStr("  A@B.Co\n")
          /\ reg[p].raised = ""
          /\ reg[p].ret = None

\* C20: create_user returns None and raises nothing whenever a row with the
\* same normalized email exists when its INSERT would run, in every
\* interleaving of two registrations of the same email.
C20_create_user_returns_none_on_duplicate ==
    \A p \in Registrants :
        (reg[p].pc = "returned" /\ reg[p].existed)
        => /\ reg[p].raised = ""
           /\ reg[p].ret = None

-----------------------------------------------------------------------------
(* Claims about the field validators *)

\* C21: validate_all_book_data(title, author, summary) raises the error of the
\* first failing field in the order title, author, summary: the title's error
\* whenever the title is invalid, whatever the author and the summary are; the
\* author's error whenever the title is valid and the author is not, whatever
\* the summary is; the summary's error when only the summary is invalid; and
\* it returns the tuple of the three normalized values exactly when all three
\* are valid.
C21_first_failing_field_is_reported ==
    call.op = "validate_all_book_data" =>
        LET t == validate_title(call.a1)
            a == validate_author(call.a2)
            s == validate_summary(call.a3)
        IN  /\ ~t.ok => call.raised = "ValidationError" /\ call.err = t.err
            /\ t.ok /\ ~a.ok => call.raised = "ValidationError" /\ call.err = a.err
            /\ t.ok /\ a.ok /\ ~s.ok =>
                   call.raised = "ValidationError" /\ call.err = s.err
            /\ (call.raised = "") = (t.ok /\ a.ok /\ s.ok)
            /\ call.raised = "" => call.val = PyTuple(<<t.val, a.val, s.val>>)

\* a call whose three fields are all invalid has raised the title's error
C21_witness ==
    /\ call.op = "validate_all_book_data"
    /\ call.a1 = PyStr("<Script>")
    /\ call.a2 = PyStr("B\n")
    /\ call.a3 = PyStr("x" \o NUL)
    /\ call.err = "Title contains potentially dangerous content"

\* validate_title's denylist, matched as the validator matches it (on the
\* lower-case form)
free_of_denylist_tokens(s) == \A p \in dangerous_patterns : ~contains(lower(s), p)

free_of_control_characters(s) == \A c \in {NUL, "\r", "\n", "\t"} : ~contains(s, c)

\* C22 as stated: every string S longer than 500 characters makes
\* validate_title(S) fail with the too-long error.
C22_longer_than_500_is_too_long ==
    (/\ call.op = "validate_title"
     /\ call.a1.kind = "str")
    => (Len(call.a1.val) > MAX_TITLE_LENGTH
        => /\ call.raised = "ValidationError"
           /\ call.err = "Title cannot exceed 500 characters")

\* C22: for every string S whose trimmed form is longer than 500 characters
\* validate_title(S) fails with the too-long error; for every string S of
\* length at most 500 that is non-empty after the trim and free of NUL, CR, LF,
\* TAB and denylist tokens it succeeds and returns S.strip().
C22_title_length_after_trim ==
    (/\ call.op = "validate_title"
     /\ call.a1.kind = "str")
    => /\ Len(strip(call.a1.val)) > MAX_TITLE_LENGTH
          => /\ call.raised = "ValidationError"
             /\ call.err = "Title cannot exceed 500 characters"
       /\ (/\ Len(call.a1.val) <= MAX_TITLE_LENGTH
           /\ strip(call.a1.val) # ""
           /\ free_of_control_characters(call.a1.val)
           /\ free_of_denylist_tokens(call.a1.val))
          => /\ call.raised = ""
             /\ call.val = PyStr(strip(call.a1.val))

\* a title whose trimmed form has 501 characters, after two blanks, was refused
\* as too long
C22_witness ==
    /\ call.op = "validate_title"
    /\ call.a1 = PyStr("  " \o repeat("t", MAX_TITLE_LENGTH + 1))
    /\ call.raised = "ValidationError"
    /\ call.err = "Title cannot exceed 500 characters"

FIELD_VALIDATORS == {"validate_title", "validate_author", "validate_summary"}

\* C30: the field validators are idempotent on their own output: when
\* validate_title, validate_author or validate_summary has accepted an input
\* and the value it returned is given to the same validator again, that call
\* succeeds too and returns the very same value.
C30_validators_idempotent_on_output ==
    [][\A op \in FIELD_VALIDATORS :
          (/\ call.op = op
           /\ call.raised = ""
           /\ call'.op = op
           /\ call'.a1 = call.val)
          => (/\ call'.raised = ""
              /\ call'.val = call.val)]_vars

\* the trimmed title "T", which is none of the titles a caller starts from, has
\* been validated a second time
C30_witness ==
    /\ call.op = "validate_title"
    /\ call.a1 = PyStr("T")
    /\ call.a1 \notin ValidateTitleInputs
    /\ call.val = PyStr("T")

-----------------------------------------------------------------------------
(* Claims about the table read through the web front-end *)

\* C23: in every reachable table, when add_book(T, A, user_id=U) returns an id
\* for valid T and A, get_book(id, user_id=U) returns a row whose title and
\* author are the normalized T and A: the id returned to U never identifies a
\* row that U cannot read.
C23_read_back_after_add ==
    \A title \in ValidTitles, author \in ValidAuthors, u \in Users :
        LET r == add_book(books, seq, title, author, None, u)
            got == get_book(r.books, r.ret, u)
        IN  /\ r.raised = ""
            /\ r.ret.kind = "int"
            /\ got.raised = ""
            /\ \E row \in got.ret :
                  /\ row.title = validated_title(title).val.val
                  /\ row.author = validated_author(author).val.val

\* flask_login's current_user: a logged-in user or the anonymous visitor
AnonymousUser == [is_authenticated |-> FALSE, id |-> None]
LoggedIn(u) == [is_authenticated |-> TRUE, id |-> u]
Visitors == {AnonymousUser} \cup {LoggedIn(u) : u \in Users}

\* a page served with a list of books, or the redirect to the login page
Page(rows) == [status |-> "ok", books |-> rows]
RedirectToLogin == [status |-> "redirect to login", books |-> {}]

\* @login_required
login_required(current_user, response) ==
    IF current_user.is_authenticated THEN response ELSE RedirectToLogin

\* the route `/`
index(b, current_user) ==
    Page(get_all_books(b, IF current_user.is_authenticated THEN current_user.id
                          ELSE None))

\* the route `/api/books`
api_books(b, current_user) ==
    login_required(current_user, Page(get_all_books(b, current_user.id)))

\* C24: a book row owned by user U is never in a book list the web front-end
\* serves to anyone other than U: neither the index page nor /api/books shows
\* it to a different logged-in user or to a visitor who is not logged in.
C24_owned_rows_served_to_owner_only ==
    \A current_user \in Visitors :
        \A page \in {index(books, current_user), api_books(books, current_user)} :
            \A row \in page.books :
                row.user_id \in Users =>
                    (current_user.is_authenticated /\ current_user.id = row.user_id)

\* the route `/book/<id>/edit-summary`, POST with action=save, by a logged-in
\* user: [books, flash]
edit_summary(b, book_id, summary, current_user) ==
    Only({
    IF ~vid.ok THEN [books |-> b, flash |-> "Invalid book ID."]
    ELSE IF get_book(b, vid.val, current_user.id).ret = {}
         THEN [books |-> b, flash |-> "Book not found or access denied."]
    ELSE Only({
         Only({
         IF ~vs.ok THEN [books |-> b, flash |-> "Invalid summary: " \o vs.err]
         ELSE Only({
              IF u.raised # "" THEN [books |-> b, flash |-> "Invalid summary: " \o u.err]
              ELSE [books |-> u.books, flash |-> "Summary updated"]
              : u \in {update_summary(b, vid.val, vs.val, current_user.id)}})
         : vs \in {IF new_summary # "" THEN validated_summary(PyStr(new_summary))
                   ELSE Return(None)}})
         : new_summary \in {strip(summary)}})
    : vid \in {validate_book_id(book_id)}})

\* the summaries a form can carry that are valid and not empty
FormSummaries == {s \in ValidSummaries : s.kind = "str" /\ strip(s.val) # ""}

\* C25: whenever get_book(id, user_id=U) returns a row, update_summary(id, s,
\* user_id=U) with a valid non-empty s makes the next get_book(id, user_id=U)
\* return the summary s.strip(); so the edit-summary route reports 'Summary
\* updated' only when the stored summary is the one submitted.
C25_read_and_write_scopes_agree ==
    \A u \in Users, i \in {PyInt(1), PyInt(2), PyInt(3)}, s \in FormSummaries :
        /\ get_book(books, i, u).ret # {} =>
              LET w == update_summary(books, i, s, u)
              IN  /\ w.raised = ""
                  /\ get_book(w.books, i, u).ret # {}
                  /\ \A row \in get_book(w.books, i, u).ret :
                        row.summary = PyStr(strip(s.val))
        /\ LET e == edit_summary(books, i, s.val, LoggedIn(u))
           IN  e.flash = "Summary updated" =>
                  /\ get_book(e.books, i, u).ret # {}
                  /\ \A row \in get_book(e.books, i, u).ret :
                        row.summary = PyStr(strip(s.val))

\* C27: when add_book finds an existing row for (title, author), by its own
\* check or after the INSERT was refused, it returns that row's id and leaves
\* the row, and the whole table, exactly as it was: id, summary and owner keep
\* their values even when the duplicate call passes another non-empty summary
\* or another owner.
C27_duplicate_add_leaves_row ==
    \A title \in ValidTitles, author \in ValidAuthors,
       summary \in ValidSummaries, owner \in UserInputs :
        \A old \in rows_for(books, title, author) :
            LET r == add_book(books, seq, title, author, summary, owner)
            IN  /\ r.raised = ""
                /\ r.ret = PyInt(old.id)
                /\ old \in r.books
                /\ r.books = books
                /\ r.seq = seq

\* add_book has just returned the id of a row that belongs to another owner
\* than the one it was called for
C27_witness ==
    /\ last.op = "add_book"
    /\ last.outcome = "IntegrityError"
    /\ \E row \in books : /\ PyInt(row.id) = last.book_id
                          /\ row.user_id # last.user_id
                          /\ add_book(books, seq, PyStr(row.title), PyStr(row.author),
                                      PyStr(" S "), last.user_id).books = books

-----------------------------------------------------------------------------
(* Two upload requests at once.  app.run serves each request on a thread of
   its own; the handlers share the upload folder and the table.  The checks
   before the write touch nothing shared and are one step; after them every
   system call on the file is a step. *)

Requests == {"r1", "r2"}

user_of(r) == IF r = "r1" THEN PyInt(1) ELSE PyInt(2)

UploadsFilenames == {"books.txt", "notes.txt"}

UploadsContents ==
    {Bytes(TRUE, "T1 by A1\n", 0),
     Bytes(TRUE, "T2 by A2\nT3 by A3\n", 0),
     Bytes(TRUE, "a" \o NUL, 0)}

\* the upload folder: directory entries, and the files they name.  A file that
\* is open stays writable after its entry is removed.
EmptyFolder == [names |-> <<>>, data |-> <<>>]

\* open(path, 'wb'): the file is created, or emptied if it is there
open_wb(d, path) ==
    IF path \in DOMAIN d.names
    THEN [disk |-> [d EXCEPT !.data[d.names[path]] = NoBytes], fd |-> d.names[path]]
    ELSE [disk |-> [names |-> [p \in DOMAIN d.names \cup {path} |->
                                  IF p = path THEN Len(d.data) + 1 ELSE d.names[p]],
                    data |-> Append(d.data, NoBytes)],
          fd |-> Len(d.data) + 1]

\* f.write(content) at offset 0 of the open file and close: bytes another
\* writer put beyond the end of content stay
write_bytes(d, fd, content) ==
    [d EXCEPT !.data[fd] =
        Bytes(content.utf8 /\ @.utf8,
              content.text \o SubSeq(@.text, Len(content.text) + 1, Len(@.text)),
              content.pad)]

\* os.remove(path)
unlink(d, path) ==
    [d EXCEPT !.names = [p \in DOMAIN d.names \ {path} |-> d.names[p]]]

\* the for loop of add_from_file over the parsed records: [books, seq,
\* added_count, validation_errors]
RECURSIVE store_records(_, _, _, _)
store_records(b, s, records, user_id) ==
    IF records = <<>>
    THEN [books |-> b, seq |-> s, added_count |-> 0, validation_errors |-> 0]
    ELSE IF Head(records).author \in {None, PyStr("")}
         THEN store_records(b, s, Tail(records), user_id)
    ELSE Only({
         IF ~v.ok
         THEN Only({[rest EXCEPT !.validation_errors = @ + 1]
                    : rest \in {store_records(b, s, Tail(records), user_id)}})
         ELSE Only({
              Only({[rest EXCEPT
                       !.added_count = IF a.raised = "" /\ a.ret # PyInt(-1)
                                       THEN @ + 1 ELSE @,
                       !.validation_errors = IF a.raised # "" THEN @ + 1 ELSE @]
                    : rest \in {store_records(a.books, a.seq, Tail(records), user_id)}})
              : a \in {add_book(b, s, PyStr(v.title), PyStr(v.author), None, user_id)}})
         : v \in {validate_all_book_data(PyStr(Head(records).title),
                                         Head(records).author, None)}})

NoRequest ==
    [pc |-> "idle", filename |-> "", content |-> NoBytes, path |-> "", fd |-> 0,
     read |-> NoBytes, records |-> <<>>, exists |-> FALSE, flash |-> "",
     raised |-> ""]

UploadsInit ==
    /\ IdleGui
    /\ books = {}
    /\ seq = 0
    /\ last = NoCall
    /\ IdleRace
    /\ IdleConfig
    /\ IdleSummary
    /\ IdleUsers
    /\ call = "unused"
    /\ fs = [cwd |-> <<"home", "u">>, links |-> <<>>]
    /\ disk = EmptyFolder
    /\ upload = [r \in Requests |-> NoRequest]

\* lines 346-391 for a posted file: the checks of the filename, the type, the
\* size, the content and the path; "" when all pass, else the message flashed
upload_refusal(filename, content, checked_path) ==
    IF ~validate_filename(PyStr(filename)).ok
    THEN "Invalid filename: " \o validate_filename(PyStr(filename)).err
    ELSE IF ~allowed_file(filename)
         THEN "Invalid file type. Only .txt files are allowed."
    ELSE IF ~validate_file_size(PyInt(len_bytes(content))).ok
         THEN "Invalid file: " \o validate_file_size(PyInt(len_bytes(content))).err
    ELSE IF ~validate_file_content(content).ok
         THEN "Invalid file: " \o validate_file_content(content).err
    ELSE IF checked_path.raised # "" THEN "Invalid file path."
    ELSE ""

\* POST /add-from-file up to the write
PostUpload(r) ==
    /\ upload[r].pc = "idle"
    /\ \E filename \in UploadsFilenames, content \in UploadsContents :
       \E p \in {validate_file_path(fs,
                    PyStr(path_join(UPLOAD_FOLDER, secure_filename(filename))),
                    PyStr(UPLOAD_FOLDER))} :
       \E refusal \in {upload_refusal(filename, content, p)} :
         upload' = [upload EXCEPT ![r] =
            [@ EXCEPT !.pc = IF refusal = "" THEN "open" ELSE "returned",
                      !.filename = filename,
                      !.content = content,
                      !.path = IF refusal = "" THEN p.val ELSE "",
                      !.flash = refusal]]
    /\ UNCHANGED <<books, seq, disk>>
    /\ upload_frame

\* line 394: open(validated_filepath, 'wb')
OpenUpload(r) ==
    /\ upload[r].pc = "open"
    /\ \E o \in {open_wb(disk, upload[r].path)} :
         /\ disk' = o.disk
         /\ upload' = [upload EXCEPT ![r] = [@ EXCEPT !.pc = "write", !.fd = o.fd]]
    /\ UNCHANGED <<books, seq>>
    /\ upload_frame

\* line 395: f.write(file_content), and the close at the end of the with block
WriteUpload(r) ==
    /\ upload[r].pc = "write"
    /\ disk' = write_bytes(disk, upload[r].fd, upload[r].content)
    /\ upload' = [upload EXCEPT ![r] = [@ EXCEPT !.pc = "parse"]]
    /\ UNCHANGED <<books, seq>>
    /\ upload_frame

\* lines 397-402 and 438-440: parse_book_file opens the path and reads the
\* file; FileNotFoundError is caught by `except Exception`
ParseUpload(r) ==
    /\ upload[r].pc = "parse"
    /\ IF upload[r].path \notin DOMAIN disk.names
       THEN upload' = [upload EXCEPT ![r] =
                [@ EXCEPT !.pc = "exists",
                          !.raised = "FileNotFoundError",
                          !.flash = "Error processing file: FileNotFoundError"]]
       ELSE \E content \in {disk.data[disk.names[upload[r].path]]} :
            \E parsed \in {parse_book_file(content)} :
              upload' = [upload EXCEPT ![r] =
                [@ EXCEPT !.pc = IF parsed = <<>> THEN "exists" ELSE "store",
                          !.read = content,
                          !.records = parsed,
                          !.flash = IF parsed = <<>> THEN "No books found in file."
                                    ELSE @]]
    /\ UNCHANGED <<books, seq, disk>>
    /\ upload_frame

\* lines 404-436: the loop over the records and the message
StoreUpload(r) ==
    /\ upload[r].pc = "store"
    /\ \E s \in {store_records(books, seq, upload[r].records, user_of(r))} :
         /\ books' = s.books
         /\ seq' = s.seq
         /\ upload' = [upload EXCEPT ![r] =
              [@ EXCEPT !.pc = "exists",
                        !.flash = "Successfully added " \o str_of_nat(s.added_count)
                                  \o " book(s) from file."
                                  \o (IF s.validation_errors > 0
                                      THEN " Skipped " \o str_of_nat(s.validation_errors)
                                           \o " invalid entries."
                                      ELSE "")]]
    /\ UNCHANGED disk
    /\ upload_frame

\* line 443: os.path.exists(validated_filepath)
ExistsUpload(r) ==
    /\ upload[r].pc = "exists"
    /\ upload' = [upload EXCEPT ![r] =
          [@ EXCEPT !.pc = IF upload[r].path \in DOMAIN disk.names THEN "remove"
                           ELSE "returned",
                    !.exists = upload[r].path \in DOMAIN disk.names]]
    /\ UNCHANGED <<books, seq, disk>>
    /\ upload_frame

\* line 444: os.remove(validated_filepath); FileNotFoundError raised in the
\* finally clause leaves the handler
RemoveUpload(r) ==
    /\ upload[r].pc = "remove"
    /\ IF upload[r].path \in DOMAIN disk.names
       THEN /\ disk' = unlink(disk, upload[r].path)
            /\ upload' = [upload EXCEPT ![r] = [@ EXCEPT !.pc = "returned"]]
       ELSE /\ disk' = disk
            /\ upload' = [upload EXCEPT ![r] =
                  [@ EXCEPT !.pc = "raised", !.raised = "FileNotFoundError"]]
    /\ UNCHANGED <<books, seq>>
    /\ upload_frame

UploadsNext ==
    \E r \in Requests :
        \/ PostUpload(r)
        \/ OpenUpload(r)
        \/ WriteUpload(r)
        \/ ParseUpload(r)
        \/ StoreUpload(r)
        \/ ExistsUpload(r)
        \/ RemoveUpload(r)

SpecUploads == UploadsInit /\ [][UploadsNext]_vars

\* the request has opened its file and has not parsed it yet
needs_file(r) == upload[r].pc \in {"write", "parse"}

\* the request's parse is over
has_parsed(r) == upload[r].pc \in {"store", "exists", "remove", "returned", "raised"}
                 /\ upload[r].path # ""

\* C26: two upload requests that run at once with the same claimed filename do
\* not interfere: as long as a request needs its file the path names the file
\* that request opened (it is neither missing nor replaced, and no cleanup of
\* the other request has removed it), when the request is about to parse the
\* file holds the bytes it uploaded, and what it parsed is what it uploaded.
C26_concurrent_uploads_do_not_interfere ==
    \A r \in Requests, q \in Requests :
        (/\ r # q
         /\ upload[r].pc # "idle"
         /\ upload[r].filename = upload[q].filename)
        => /\ needs_file(r) =>
                /\ upload[r].path \in DOMAIN disk.names
                /\ disk.names[upload[r].path] = upload[r].fd
           /\ upload[r].pc = "parse" =>
                /\ upload[r].path \in DOMAIN disk.names
                /\ disk.data[disk.names[upload[r].path]] = upload[r].content
           /\ has_parsed(r) =>
                /\ upload[r].raised # "FileNotFoundError"
                /\ upload[r].read = upload[r].content

-----------------------------------------------------------------------------
(* web_app.py: check_ai_rate_limit, called by the request threads of
   generate_summaries and edit_summary.  ai_rate_limit is one dict of the
   process; a thread may be interrupted between the statements of the check.
   The clock is time.time() in whole seconds. *)

AI_RATE_LIMIT_SECONDS == 5

ClockAtStart == 100     \* time.time() when the run starts
MaxTicks == 5           \* seconds the clock moves on in a run
MaxSubmissions == 2     \* submissions started in a run

Threads == {"t1", "t2"}

\* request.remote_addr
Sessions == {"10.0.0.1", "10.0.0.2"}

NoThread ==
    [pc |-> "idle", session_id |-> "", submission |-> 0, remaining |-> 0,
     current_time |-> 0, last_request |-> 0]

LimitInit ==
    /\ IdleGui
    /\ IdleStore
    /\ IdleRace
    /\ IdleConfig
    /\ IdleFiles
    /\ IdleUpload
    /\ IdleUsers
    /\ ai = [clock |-> ClockAtStart, ai_rate_limit |-> <<>>,
             thread |-> [t \in Threads |-> NoThread], submissions |-> 0,
             log |-> <<>>]

limit_frame ==
    UNCHANGED <<books, seq, last, pc, args, result, calls, environ, secret_files,
                cloud, cfg, lookup, boot, fs, call, disk, upload, users, reg, gui>>

\* one second passes
Tick ==
    /\ ai.clock < ClockAtStart + MaxTicks
    /\ ai' = [ai EXCEPT !.clock = @ + 1]
    /\ limit_frame

\* a POST of generate_summaries with `remaining` selected books that have no
\* summary yet (one book: also the regenerate action of edit_summary)
Submit(t) ==
    /\ ai.thread[t].pc \in {"idle", "returned"}
    /\ ai.submissions < MaxSubmissions
    /\ \E session_id \in Sessions, n \in 1..MaxSelected :
         ai' = [ai EXCEPT !.submissions = @ + 1,
                          !.thread[t] = [NoThread EXCEPT !.pc = "time",
                                                         !.session_id = session_id,
                                                         !.submission = ai.submissions + 1,
                                                         !.remaining = n]]
    /\ limit_frame

\* line 295: current_time = time.time()
ReadTime(t) ==
    /\ ai.thread[t].pc = "time"
    /\ ai' = [ai EXCEPT !.thread[t].pc = "get", !.thread[t].current_time = ai.clock]
    /\ limit_frame

\* line 296: last_request = ai_rate_limit.get(session_id, 0)
GetLastRequest(t) ==
    /\ ai.thread[t].pc = "get"
    /\ ai' = [ai EXCEPT
          !.thread[t].pc = "compare",
          !.thread[t].last_request =
              IF ai.thread[t].session_id \in DOMAIN ai.ai_rate_limit
              THEN ai.ai_rate_limit[ai.thread[t].session_id]
              ELSE 0]
    /\ limit_frame

\* line 298
within_limit(current_time, last_request) ==
    current_time - last_request < AI_RATE_LIMIT_SECONDS

\* what the check leaves in the log: the stored time before and after it
Checked(th, allowed, before, after) ==
    [session_id |-> th.session_id, submission |-> th.submission,
     time |-> th.current_time, allowed |-> allowed, before |-> before, after |-> after]

stored_time(limits, session_id) ==
    IF session_id \in DOMAIN limits THEN limits[session_id] ELSE 0

\* lines 298-302: return False, or store the time and return True; on False
\* the loop of generate_summaries is left (line 518) and the handler returns
Compare(t) ==
    /\ ai.thread[t].pc = "compare"
    /\ \E th \in {ai.thread[t]} :
       \E before \in {stored_time(ai.ai_rate_limit, th.session_id)} :
         IF within_limit(th.current_time, th.last_request)
         THEN ai' = [ai EXCEPT !.thread[t].pc = "returned",
                               !.log = Append(@, Checked(th, FALSE, before, before))]
         ELSE ai' = [ai EXCEPT
                 !.thread[t].pc = "generate",
                 !.ai_rate_limit =
                     [s \in DOMAIN @ \cup {th.session_id} |->
                        IF s = th.session_id THEN th.current_time ELSE @[s]],
                 !.log = Append(@, Checked(th, TRUE, before, th.current_time))]
    /\ limit_frame

\* lines 520-526: the summary of one book is generated and stored, or fails;
\* then the next selected book, or the return
GenerateBook(t) ==
    /\ ai.thread[t].pc = "generate"
    /\ ai' = [ai EXCEPT !.thread[t].remaining = @ - 1,
                        !.thread[t].pc = IF ai.thread[t].remaining > 1 THEN "time"
                                         ELSE "returned"]
    /\ limit_frame

LimitNext ==
    \/ Tick
    \/ \E t \in Threads :
          \/ Submit(t)
          \/ ReadTime(t)
          \/ GetLastRequest(t)
          \/ Compare(t)
          \/ GenerateBook(t)

SpecLimit == LimitInit /\ [][LimitNext]_vars

-----------------------------------------------------------------------------
(* bookshelf_gui.py: the flashcard tab of the desktop window.  gui holds the
   three attributes of lines 39-41, the text shown on the card, the books in
   the database the window reads, and the handler that ran last. *)

MaxShelf == 3       \* books in the database of the window

\* the books a shelf is filled from, in this order; the second has no summary
ShelfBooks ==
    <<[title |-> "B1", summary |-> PyStr("S1")],
      [title |-> "B2", summary |-> None],
      [title |-> "B3", summary |-> PyStr("S3")],
      [title |-> "B4", summary |-> PyStr("")]>>

GuiInit ==
    /\ IdleStore
    /\ IdleRace
    /\ IdleConfig
    /\ IdleWeb
    /\ \E n \in 0..MaxShelf :
         gui = [shelf |-> SubSeq(ShelfBooks, 1, n),
                flashcard_books |-> <<>>,
                current_flashcard_index |-> 0,
                flashcard_revealed |-> FALSE,
                card_summary_text |-> "",
                event |-> "init"]

gui_frame ==
    UNCHANGED <<books, seq, last, pc, args, result, calls, environ, secret_files,
                cloud, cfg, lookup, boot, fs, call, disk, upload, ai, users, reg>>

\* BookshelfGUI._display_current_flashcard
display_current_flashcard(g) ==
    IF g.flashcard_books = <<>> THEN g
    ELSE [g EXCEPT !.card_summary_text = "", !.flashcard_revealed = FALSE]

\* BookshelfGUI._start_flashcard_mode
start_flashcard_mode(g) ==
    IF g.shelf = <<>>
    THEN [g EXCEPT !.flashcard_books = <<>>]
    ELSE display_current_flashcard(
             [g EXCEPT !.flashcard_books = g.shelf,
                       !.current_flashcard_index = 0,
                       !.flashcard_revealed = FALSE])

\* BookshelfGUI._reveal_summary (list indices count from 0)
reveal_summary(g) ==
    IF g.flashcard_books = <<>> THEN g
    ELSE IF ~g.flashcard_revealed
         THEN [g EXCEPT
                 !.card_summary_text =
                     Only({IF book.summary \notin {None, PyStr("")} THEN book.summary.val
                           ELSE "No summary available for this book."
                           : book \in {g.flashcard_books[g.current_flashcard_index + 1]}}),
                 !.flashcard_revealed = TRUE]
         ELSE [g EXCEPT !.card_summary_text = "", !.flashcard_revealed = FALSE]

\* _next_flashcard without its `if`
next_flashcard_unchecked(g) ==
    display_current_flashcard([g EXCEPT !.current_flashcard_index = @ + 1])

\* BookshelfGUI._next_flashcard
next_flashcard(g) ==
    IF g.current_flashcard_index < Len(g.flashcard_books) - 1
    THEN display_current_flashcard([g EXCEPT !.current_flashcard_index = @ + 1])
    ELSE g

\* BookshelfGUI._prev_flashcard
prev_flashcard(g) ==
    IF g.current_flashcard_index > 0
    THEN display_current_flashcard([g EXCEPT !.current_flashcard_index = @ - 1])
    ELSE g

\* the add-book dialog stores one more book
AddShelfBook ==
    /\ Len(gui.shelf) < MaxShelf
    /\ gui' = [gui EXCEPT !.shelf = SubSeq(ShelfBooks, 1, Len(@) + 1), !.event = "add"]
    /\ gui_frame

\* _clear_example_books deletes the books of the tutorial
ClearShelf ==
    /\ gui.shelf # <<>>
    /\ gui' = [gui EXCEPT !.shelf = <<>>, !.event = "clear"]
    /\ gui_frame

StartFlashcardMode ==
    /\ gui' = [start_flashcard_mode(gui) EXCEPT !.event = "start"]
    /\ gui_frame

RevealSummary ==
    /\ gui' = [reveal_summary(gui) EXCEPT !.event = "reveal"]
    /\ gui_frame

NextFlashcard ==
    /\ gui' = [next_flashcard(gui) EXCEPT !.event = "next"]
    /\ gui_frame

PrevFlashcard ==
    /\ gui' = [prev_flashcard(gui) EXCEPT !.event = "prev"]
    /\ gui_frame

GuiNext ==
    \/ AddShelfBook
    \/ ClearShelf
    \/ StartFlashcardMode
    \/ RevealSummary
    \/ NextFlashcard
    \/ PrevFlashcard

SpecGui == GuiInit /\ [][GuiNext]_vars

\* the flashcard attributes of the window
flashcard_state(g) ==
    <<g.flashcard_books, g.current_flashcard_index, g.flashcard_revealed>>

\* C29: once flashcard mode was started with a non-empty list, any sequence of
\* next, previous and reveal keeps 0 <= current_flashcard_index <
\* len(flashcard_books); previous at index 0 and next at the last index change
\* nothing; every successful next or previous resets flashcard_revealed to
\* false; reveal toggles flashcard_revealed and leaves the index alone.
C29_flashcard_index_stays_in_range ==
    /\ [](gui.flashcard_books # <<>> =>
            /\ 0 <= gui.current_flashcard_index
            /\ gui.current_flashcard_index < Len(gui.flashcard_books))
    /\ [][gui.flashcard_books # <<>> =>
            /\ gui'.event \in {"next", "prev", "reveal"} =>
                  gui'.flashcard_books = gui.flashcard_books
            /\ gui'.event = "next" =>
                  IF gui.current_flashcard_index = Len(gui.flashcard_books) - 1
                  THEN flashcard_state(gui') = flashcard_state(gui)
                  ELSE /\ gui'.current_flashcard_index = gui.current_flashcard_index + 1
                       /\ ~gui'.flashcard_revealed
            /\ gui'.event = "prev" =>
                  IF gui.current_flashcard_index = 0
                  THEN flashcard_state(gui') = flashcard_state(gui)
                  ELSE /\ gui'.current_flashcard_index = gui.current_flashcard_index - 1
                       /\ ~gui'.flashcard_revealed
            /\ gui'.event = "reveal" =>
                  /\ gui'.current_flashcard_index = gui.current_flashcard_index
                  /\ gui'.flashcard_revealed = ~gui.flashcard_revealed]_vars

\* next was pressed on the last of three cards while its summary was shown:
\* the card and the summary stay
C29_witness ==
    /\ gui.event = "next"
    /\ Len(gui.flashcard_books) = 3
    /\ gui.current_flashcard_index = 2
    /\ gui.flashcard_revealed

=============================================================================
